---------------------------- MODULE Spec2Model ----------------------------
(***************************************************************************)
(* CortexAI: the agent loop (CortexAgent.Run), the warehouse pipeline that *)
(* drives it (BigQueryHandler.Handle) and the schema-prompt cache          *)
(* (BigQueryHandler.buildSystemPrompt with its singleflight group).        *)
(*                                                                         *)
(* Texts are sequences of tokens: "p" is prose, "Q1" is a fenced sql block *)
(* holding the query Q1.  SQL strings are "" (empty), "Q1", "Q2".          *)
(***************************************************************************)
EXTENDS Integers, Sequences, FiniteSets, TLC

VARIABLES
    \* ---- CortexAgent.Run (one request) ----
    pc,               \* position in Run: "idle", "call", "tools", "final", "done"
    iter,             \* loop index of Run
    messages,         \* the conversation sent to the LLM
    toolsUsed,        \* names of the tool calls processed so far
    lastExecutedSQL,  \* last non-empty sql given to execute_bigquery_sql
    textContent,      \* text collected from the current response
    pendingToolCalls, \* tool calls of the current response
    tcIdx,            \* index of the next pending tool call to process
    toolResults,      \* tool-result blocks built in the current iteration
    resp,             \* the response of this iteration's LLM call
    finalResp,        \* the content the forced final call returned
    runRet,           \* what Run returned: [text, toolsUsed, lastSQL, err, cause]
    ctxDone,          \* agentCtx is cancelled or past its deadline
    llmCalls,         \* the LLM calls made: [tools, nmsgs, cancelled, ok]
    execLog,          \* the calls of executeTool, in order: [id, name, sql, ok]
    varied,           \* environment budget used so far
    \* ---- BigQueryHandler.Handle / ElasticsearchHandler.Handle (same request) ----
    hpc,              \* position: "http", "start", "run", "exec", "done"
    generatedSQL,
    execResult,       \* "none" or "attached"
    bqExecuted,       \* SQL texts the pipeline gave to bq.ExecuteQuery
    hret,             \* what Handle returned: [status, err]
    metadata,         \* the metadata trace of the request
    stages,           \* the pipeline stages run so far, in order
    audits,           \* agent_audit records emitted
    sqlValidated,     \* SQL texts the pipeline gave to SQLValidator.Validate
    result,           \* what bq.ExecuteQuery returned to the execute step
    response,         \* the AgentResponse Handle returned
    dryRun,           \* req.DryRun as Handle read it (FALSE until read)
    \* ---- AgentHandler.QueryAgent (same request) ----
    req,              \* the request: [body, prompt, dataSource]
    auditEnabled,     \* AuditLogger.enabled
    handler,          \* the pipeline selected: "unset", "nil", "bq", "es"
    source,           \* the data source selected
    routingConf,      \* routing confidence, in hundredths
    routingReason,    \* routing reasoning
    httpStatus,       \* status code written, 0 while none
    written,          \* body written: "none", "error", "response"
    \* ---- schemaCache / buildSystemPrompt (concurrent callers) ----
    now,              \* wall clock, in minutes
    bqAvail,          \* h.bq is not nil
    store,            \* schemaCache.store: dataset -> entry or NoEntry
    sfCalls,          \* singleflight.Group.m: dataset -> leading caller or 0
    cpc,              \* caller -> position in buildSystemPrompt
    cds,              \* caller -> datasetID argument
    cret,             \* caller -> prompt returned by the last call
    fetched,          \* caller -> result and record of the fetch it shares
    listings,         \* dataset -> ListTables calls started, last failed one
    batch,            \* dataset -> the calls issued before the first completes
    \* ---- RateLimiter (concurrent requests) ----
    clock,            \* wall clock of the limiter, in seconds
    windows,          \* RateLimiter.windows: key -> window, 0 for none
    requests,         \* window -> slidingWindow.requests, the admission times
    nextWindow,       \* the next window to allocate
    lastCleanup,      \* time of the last cleanup run
    rpc,              \* request -> position in the RateLimit handler
    rkey,             \* request -> its rate-limit key
    rsw,              \* request -> the window it obtained
    rresp,            \* request -> [status, retryAfter, remaining, at]
    admitted,         \* key -> admission times, in order
    \* ---- a call of a pure function ----
    call              \* [fn, arg, pos, out]

agentVars == <<pc, iter, messages, toolsUsed, lastExecutedSQL, textContent,
               pendingToolCalls, tcIdx, toolResults, resp, finalResp, runRet,
               ctxDone, llmCalls, execLog, varied>>
handleVars == <<hpc, generatedSQL, execResult, bqExecuted, hret, metadata, stages,
                audits, sqlValidated, result, response, dryRun>>
httpVars == <<req, auditEnabled, handler, source, routingConf, routingReason,
              httpStatus, written>>
cacheVars == <<now, bqAvail, store, sfCalls, cpc, cds, cret, fetched, listings,
               batch>>
rateVars == <<clock, windows, requests, nextWindow, lastCleanup, rpc, rkey, rsw,
              rresp, admitted>>
auxVars == <<rateVars, call>>
vars == <<agentVars, handleVars, httpVars, cacheVars, auxVars>>

-----------------------------------------------------------------------------
(* Bounds of the model *)

\* responses and backend outcomes of one run that differ from the plain ones
MaxVaried == 2

\* goroutines calling buildSystemPrompt, one call each
NumCallers == 3

\* steps the clock makes, each of schemaCacheTTL minutes
MaxTicks == 2

\* requests passing the rate limiter, one call of the handler each
NumRequests == 3

\* the configured limit of requests per minute and key
limit == 2

\* the seconds the limiter's clock advances at a step, and the steps it makes
ClockStep == 30
MaxClockSteps == 3

\* the words of the longest prompt given to Route
MaxPromptWords == 3

\* the clauses that follow the first word of an SQL text given to
\* SQLValidator.Validate
MaxClauses == 2

\* the words of a prompt given to ESPromptValidator.Validate
MaxESWords == 3

\* timeouts tried below 0 and above 600
TimeoutMargin == 3

(* Program constants *)

\* bytesPerGB of the cost tracker
bytesPerGB == 1000000000

\* slidingWindow.windowDur, the age at which cleanup drops a window and the
\* period of the cleanup ticker, in seconds; the Retry-After header
windowDur == 60
cleanupAge == 60
cleanupPeriod == 300
retryAfter == 60

\* schemaCacheTTL, in minutes
schemaCacheTTL == 5

maxIter == 10
forceIter == 7

-----------------------------------------------------------------------------
(* Data *)

ExecuteTool == "execute_bigquery_sql"
ListTool == "list_bigquery_tables"
BogusTool == "no_such_tool"

\* the tool set Handle gives to Run (two of the five warehouse tools)
agentTools == {ExecuteTool, ListTool}

\* the tool set of the search pipeline
ESListTool == "list_elasticsearch_indices"
ESSearchTool == "elasticsearch_search"
esTools == {ESListTool, ESSearchTool}

TerminalStops == {"end_turn", "stop", "stop_sequence", "max_tokens"}
StopReasons == TerminalStops \cup {"tool_use"}

\* content blocks: a text block, a tool-use block (the LLM numbers them, see
\* WithIds) and the tool-result block Run builds for a tool-use id
T(tok) ==
    [type |-> "text", text |-> tok, name |-> "", sql |-> "", id |-> 0, is_error |-> FALSE]
U(n, q) ==
    [type |-> "tool_use", text |-> "", name |-> n, sql |-> q, id |-> 0, is_error |-> FALSE]
NewToolResultBlock_NoError(id, isErr) ==
    [type |-> "tool_result", text |-> "", name |-> "", sql |-> "", id |-> id, is_error |-> FALSE]
NewToolResultBlock(id, isErr) ==
    [type |-> "tool_result", text |-> "", name |-> "", sql |-> "", id |-> id, is_error |-> isErr]

\* the content of the plain tool-calling response
PlainContent == << U(ListTool, "") >>

\* contents an LLM response to a tool-enabled call may carry
Contents ==
    { << >>,
      << T("p") >>,
      << T("p"), T("Q1") >>,
      PlainContent,
      << T("Q1"), U(ExecuteTool, "Q1") >>,
      << U(ExecuteTool, "Q2"), T("p"), U(BogusTool, "Q1") >>,
      << U(ExecuteTool, ""), U(ListTool, "") >>,
      << U(ESListTool, "") >> }

\* contents the LLM may return to the tool-less final call
FinalContents ==
    { << >>, << T("p") >>, << T("Q1"), U(ExecuteTool, "Q2"), T("p") >> }

Responses == [stop : StopReasons, content : Contents]

NoResp == [stop |-> "none", content |-> << >>]
NoRet == [text |-> << >>, toolsUsed |-> << >>, lastSQL |-> "", err |-> "none",
          cause |-> "none"]

\* the errors Run returns
LLMCallErr == "LLM call failed"
\* the error of the final call dropped
FinalCallErr_Dropped == "nil"
FinalCallErr == "final answer call failed"
MaxIterErr == "agent loop exceeded max iterations"


ForceText == "You have enough data"
UserPrompt == "prompt"

-----------------------------------------------------------------------------
(* The LLM: every tool-use block of a response carries an id of its own *)

WithIds(content, it) ==
    [j \in 1..Len(content) |->
        IF content[j].type = "tool_use"
        THEN [content[j] EXCEPT !.id = 10 * (it + 1) + j]
        ELSE content[j]]

PlainToolResponse == [stop |-> "tool_use", content |-> PlainContent]
PlainAnswer == [stop |-> "end_turn", content |-> << T("p") >>]

\* budget a response uses
Cost(r) == IF r \in {PlainToolResponse, PlainAnswer} THEN 0 ELSE 1

-----------------------------------------------------------------------------
(* CortexAgent.Run *)

RECURSIVE CollectText(_)
CollectText(content) ==
    IF content = << >> THEN << >>
    ELSE (IF Head(content).type = "text" THEN << Head(content).text >> ELSE << >>)
         \o CollectText(Tail(content))

RECURSIVE CollectToolCalls(_)
CollectToolCalls(content) ==
    IF content = << >> THEN << >>
    ELSE (IF Head(content).type = "tool_use"
          THEN << [id |-> Head(content).id, name |-> Head(content).name,
                   sql |-> Head(content).sql] >>
          ELSE << >>)
         \o CollectToolCalls(Tail(content))

\* isDone without the max_tokens stop reason
isDone_NoMaxTokens(r, pending) ==
    \/ r.stop = "end_turn"
    \/ r.stop = "stop"
    \/ r.stop = "stop_sequence"
    \/ Len(pending) = 0

isDone(r, pending) ==
    \/ r.stop = "end_turn"
    \/ r.stop = "stop"
    \/ r.stop = "stop_sequence"
    \/ r.stop = "max_tokens"
    \/ Len(pending) = 0

\* the forced answer one iteration late
ForceFinal_Late(it) == it > forceIter

\* the forced answer never taken
ForceFinal_Never(it) == FALSE

ForceFinal(it) == it >= forceIter

Msg(role, blocks) == [role |-> role, content |-> blocks]

\* the tool set Run was given: of the warehouse or of the search pipeline
runTools == IF handler = "es" THEN esTools ELSE agentTools

\* executeTool with an unknown tool name answered by an empty result
executeTool_UnknownOk(tc, cancelled, budgetLeft) ==
    IF tc.name \notin runTools THEN {TRUE}
    ELSE IF tc.name = ExecuteTool /\ tc.sql = "" THEN {FALSE}
    ELSE IF cancelled THEN {FALSE}
    ELSE IF budgetLeft THEN {TRUE, FALSE} ELSE {TRUE}

\* executeTool: the outcomes (TRUE = no error) of running tool call tc
executeTool(tc, cancelled, budgetLeft) ==
    IF tc.name \notin runTools THEN {FALSE}                \* unknown tool
    ELSE IF tc.name = ExecuteTool /\ tc.sql = "" THEN {FALSE}  \* sql is required
    ELSE IF cancelled THEN {FALSE}                         \* backend call on a done ctx
    ELSE IF budgetLeft THEN {TRUE, FALSE} ELSE {TRUE}

\* a return statement of Run: (text, toolsUsed, lastExecutedSQL, err)
Return(text, err, cause) ==
    /\ runRet' = [text |-> text, toolsUsed |-> toolsUsed, lastSQL |-> lastExecutedSQL,
                  err |-> err, cause |-> cause]
    /\ pc' = "done"

\* the context Run hands to client.Messages.New: a call on a done context fails
CallCtx(done) == done

Call(withTools, ok) ==
    [tools |-> withTools, nmsgs |-> Len(messages), cancelled |-> ctxDone, ok |-> ok]

\* one pass through the loop head: the LLM call with the tool catalog, the
\* collection of its response, the exit test and the forced-answer test
LLMCall ==
    /\ pc = "call"
    /\ UNCHANGED <<toolsUsed, lastExecutedSQL, ctxDone, execLog, iter, finalResp>>
    /\ UNCHANGED <<handleVars, httpVars, cacheVars, auxVars>>
    /\ IF iter >= maxIter
       THEN /\ Return(<< >>, MaxIterErr, "none")
            /\ UNCHANGED <<messages, textContent, pendingToolCalls, tcIdx,
                           toolResults, resp, llmCalls, varied>>
       ELSE /\ \/ \* the call fails: the context is done
                  /\ CallCtx(ctxDone)
                  /\ llmCalls' = Append(llmCalls, Call(TRUE, FALSE))
                  /\ Return(<< >>, LLMCallErr, "ctx")
                  /\ UNCHANGED <<messages, textContent, pendingToolCalls, tcIdx,
                                 toolResults, resp, varied>>
               \/ \* the call fails: the provider reports an error
                  /\ ~CallCtx(ctxDone)
                  /\ varied < MaxVaried
                  /\ varied' = varied + 1
                  /\ llmCalls' = Append(llmCalls, Call(TRUE, FALSE))
                  /\ Return(<< >>, LLMCallErr, "api")
                  /\ UNCHANGED <<messages, textContent, pendingToolCalls, tcIdx,
                                 toolResults, resp>>
               \/ \* the call returns a response
                  /\ ~CallCtx(ctxDone)
                  /\ llmCalls' = Append(llmCalls, Call(TRUE, TRUE))
                  /\ \E r0 \in Responses :
                       LET r == [r0 EXCEPT !.content = WithIds(r0.content, iter)]
                           text == CollectText(r.content)
                           pending == CollectToolCalls(r.content)
                       IN  /\ varied + Cost(r0) <= MaxVaried
                           /\ varied' = varied + Cost(r0)
                           /\ resp' = r
                           /\ textContent' = text
                           /\ pendingToolCalls' = pending
                           /\ IF isDone(r, pending)
                              THEN /\ Return(text, "nil", "none")
                                   /\ UNCHANGED <<messages, tcIdx, toolResults>>
                              ELSE IF ForceFinal(iter)
                              THEN /\ messages' = messages \o
                                        << Msg("assistant", r.content),
                                           Msg("user", << T(ForceText) >>) >>
                                   /\ pc' = "final"
                                   /\ UNCHANGED <<runRet, tcIdx, toolResults>>
                              ELSE /\ messages' = Append(messages, Msg("assistant", r.content))
                                   /\ toolResults' = << >>
                                   /\ tcIdx' = 1
                                   /\ pc' = "tools"
                                   /\ UNCHANGED runRet

\* the sql input of any tool call recorded
trackSQL_AnyTool(last, tc) == IF tc.sql # "" THEN tc.sql ELSE last

\* lastExecutedSQL after tool call tc: the sql input of an
\* execute_bigquery_sql call when it is a non-empty string
trackSQL(last, tc) == IF tc.name = ExecuteTool /\ tc.sql # "" THEN tc.sql ELSE last

\* the result of a failed tool call left out of the turn
appendToolResult_SkipFailed(results, id, isErr) ==
    IF isErr THEN results ELSE Append(results, NewToolResultBlock(id, isErr))

\* toolResults after a tool call: its tool-result block is appended, failed
\* or not
appendToolResult(results, id, isErr) == Append(results, NewToolResultBlock(id, isErr))

\* the body of the tool loop for one pending tool call; after the last one
\* the tool results become one user turn and the next iteration starts
ExecTool ==
    /\ pc = "tools"
    /\ tcIdx <= Len(pendingToolCalls)
    /\ LET tc == pendingToolCalls[tcIdx] IN
       /\ toolsUsed' = Append(toolsUsed, tc.name)
       /\ lastExecutedSQL' = trackSQL(lastExecutedSQL, tc)
       /\ \E ok \in executeTool(tc, ctxDone, varied < MaxVaried) :
            LET results == appendToolResult(toolResults, tc.id, ~ok)
                spent == IF ~ok /\ TRUE \in executeTool(tc, ctxDone, TRUE) THEN 1 ELSE 0
            IN  /\ varied' = varied + spent
                /\ execLog' = Append(execLog, [id |-> tc.id, name |-> tc.name,
                                               sql |-> tc.sql, ok |-> ok])
                /\ IF tcIdx = Len(pendingToolCalls)
                   THEN /\ messages' = Append(messages, Msg("user", results))
                        /\ iter' = iter + 1
                        /\ pc' = "call"
                        /\ toolResults' = << >>
                        /\ tcIdx' = 1
                        /\ textContent' = << >>
                        /\ pendingToolCalls' = << >>
                        /\ resp' = NoResp
                   ELSE /\ toolResults' = results
                        /\ tcIdx' = tcIdx + 1
                        /\ UNCHANGED <<messages, iter, pc, textContent,
                                       pendingToolCalls, resp>>
    /\ UNCHANGED <<runRet, ctxDone, llmCalls, finalResp>>
    /\ UNCHANGED <<handleVars, httpVars, cacheVars, auxVars>>

\* the text of the final call left out
FinalText_Dropped(text, content) == text

\* the text Run returns after the final call: the text blocks of the final
\* response appended to the text collected in this iteration
FinalText(text, content) == text \o CollectText(content)

\* the forced final answer: one more LLM call, without the tool catalog
FinalCall ==
    /\ pc = "final"
    /\ \/ /\ CallCtx(ctxDone)
          /\ llmCalls' = Append(llmCalls, Call(FALSE, FALSE))
          /\ Return(textContent, FinalCallErr, "ctx")
          /\ UNCHANGED <<textContent, varied, finalResp>>
       \/ /\ ~CallCtx(ctxDone)
          /\ varied < MaxVaried
          /\ varied' = varied + 1
          /\ llmCalls' = Append(llmCalls, Call(FALSE, FALSE))
          /\ Return(textContent, FinalCallErr, "api")
          /\ UNCHANGED <<textContent, finalResp>>
       \/ /\ ~CallCtx(ctxDone)
          /\ llmCalls' = Append(llmCalls, Call(FALSE, TRUE))
          /\ \E c \in FinalContents :
               /\ finalResp' = c
               /\ textContent' = FinalText(textContent, c)
               /\ Return(textContent', "nil", "none")
          /\ UNCHANGED varied
    /\ UNCHANGED <<iter, messages, toolsUsed, lastExecutedSQL, pendingToolCalls,
                   tcIdx, toolResults, resp, ctxDone, execLog>>
    /\ UNCHANGED <<handleVars, httpVars, cacheVars, auxVars>>

\* the request context is cancelled, or the deadline of agentCtx passes
Cancel ==
    /\ hpc \in {"run", "exec"}
    /\ ~ctxDone
    /\ ctxDone' = TRUE
    /\ UNCHANGED <<pc, iter, messages, toolsUsed, lastExecutedSQL, textContent,
                   pendingToolCalls, tcIdx, toolResults, resp, finalResp, runRet,
                   llmCalls, execLog, varied>>
    /\ UNCHANGED <<handleVars, httpVars, cacheVars, auxVars>>

-----------------------------------------------------------------------------
(* BigQueryHandler.Handle *)

SqlTokens == {"Q1", "Q2"}

\* extractSQL on token texts: the body of the first fenced sql block
RECURSIVE extractSQL(_)
extractSQL(text) ==
    IF text = << >> THEN ""
    ELSE IF Head(text) \in SqlTokens THEN Head(text)
    ELSE extractSQL(Tail(text))

\* the fallback with the SQL of the last tool call preferred
pickSQL_PreferLast(extracted, lastSQL) ==
    IF lastSQL # "" THEN lastSQL ELSE extracted

\* the generated SQL: the extracted text, or when it is empty the SQL of the
\* last execute_bigquery_sql call
pickSQL(extracted, lastSQL) ==
    IF extracted = "" /\ lastSQL # "" THEN lastSQL ELSE extracted

\* SQLValidator.Validate: Q1 stands for a SELECT the validator accepts,
\* Q2 for a statement it rejects
sqlValidate(q) == IF q = "Q1" THEN "" ELSE "blocked"

-----------------------------------------------------------------------------
(* The guards and the router.  A prompt is a sequence of lower-case words; *)
(* a keyword is found in a prompt when one of the words contains it        *)

\* the words of the model that contain a keyword of the PII detector
piiKeywords == {"password", "secret"}

\* PIIDetector.Detect
Detect(prompt) == \E i \in 1..Len(prompt) : prompt[i] \in piiKeywords

\* the words of the model matched by a dangerous pattern, holding a suspicious
\* indicator, holding a data keyword
dangerousPatterns == {"curl", "sudo"}
suspiciousIndicators == {"eval", "exec"}
dataKeywords == {"show", "find", "orders", "logs", "errors"}

\* PromptValidator.Validate (the prompts of the model are shorter than
\* MaxPromptLength)
promptValidate(prompt) ==
    IF prompt = << >> THEN "prompt cannot be empty"
    ELSE IF \E i \in 1..Len(prompt) : prompt[i] \in dangerousPatterns
    THEN "dangerous pattern detected"
    ELSE IF \E i \in 1..Len(prompt) : prompt[i] \in suspiciousIndicators
    THEN "suspicious instruction indicator detected"
    ELSE IF ~\E i \in 1..Len(prompt) : prompt[i] \in dataKeywords
    THEN "prompt must contain data-related keywords"
    ELSE "ok"

\* the vague patterns "find all errors", "all logs|errors", "any errors"
vaguePatterns(prompt) ==
    \E i \in 1..Len(prompt) :
        \/ /\ i + 2 <= Len(prompt)
           /\ prompt[i] = "find" /\ prompt[i + 1] = "all"
           /\ prompt[i + 2] \in {"error", "errors"}
        \/ /\ i + 1 <= Len(prompt)
           /\ prompt[i] \in {"all", "any"}
           /\ prompt[i + 1] \in {"error", "errors"}
        \/ /\ i + 1 <= Len(prompt)
           /\ prompt[i] = "all" /\ prompt[i + 1] = "logs"

\* a word made of the characters of [\w\-]+
IsValue(w) == w # "/api"

\* the identifier classes with a pattern that matches the prompt; of the
\* classes of the map the words of the model reach time_range (today,
\* yesterday), order_id (order_id and a value), http_method (GET) and
\* url_path (/api)
identifierPatterns(prompt) ==
    {c \in {"time_range", "order_id", "http_method", "url_path"} :
        \E i \in 1..Len(prompt) :
            \/ c = "time_range" /\ prompt[i] \in {"today", "yesterday"}
            \/ c = "order_id" /\ prompt[i] = "order_id" /\ i + 1 <= Len(prompt)
                              /\ IsValue(prompt[i + 1])
            \/ c = "http_method" /\ prompt[i] = "GET"
            \/ c = "url_path" /\ prompt[i] = "/api"}

\* the identifier validation letting every prompt through
esPromptValidate_AcceptAll(prompt) ==
    {[valid |-> TRUE, identType |-> "time_range", msg |-> ""]}

\* the identifier classes looked at before the vague patterns
esPromptValidate_IdentifierFirst(prompt) ==
    IF identifierPatterns(prompt) # {}
    THEN {[valid |-> TRUE, identType |-> c, msg |-> ""] : c \in identifierPatterns(prompt)}
    ELSE {[valid |-> FALSE, identType |-> "", msg |-> "prompt is too vague"]}

\* ESPromptValidator.Validate: the results (valid, matched identifier class,
\* message) a call can return.  The classes are the keys of a Go map, ranged
\* over in an order that differs from call to call: the class returned is
\* the one of the matching classes the range meets first
esPromptValidate(prompt) ==
    IF vaguePatterns(prompt)
    THEN {[valid |-> FALSE, identType |-> "", msg |-> "prompt is too vague"]}
    ELSE IF identifierPatterns(prompt) # {}
    THEN {[valid |-> TRUE, identType |-> c, msg |-> ""] : c \in identifierPatterns(prompt)}
    ELSE {[valid |-> FALSE, identType |-> "",
           msg |-> "prompt must include a specific identifier"]}

DataSourceBigQuery == "bigquery"
DataSourceElasticsearch == "elasticsearch"

\* the router keywords the words of the model contain (of the keywords that
\* are phrases none is modelled)
elasticsearchKeywords == << "logs", "log", "exception" >>
bigqueryKeywords == << "table", "order" >>

\* the keywords a word contains as substrings
KeywordsIn(w) ==
    CASE w = "logs" -> {"logs", "log"}
      [] w = "log" -> {"log"}
      [] w = "exception" -> {"exception"}
      [] w = "table" -> {"table"}
      [] w \in {"order", "orders"} -> {"order"}
      [] OTHER -> {}

\* strings.Contains(lower, kw)
Contains(lower, kw) == \E i \in 1..Len(lower) : kw \in KeywordsIn(lower[i])

\* the score loop of Route: one point for each keyword the prompt contains
RECURSIVE Score(_, _)
Score(kws, lower) ==
    IF kws = << >> THEN 0
    ELSE (IF Contains(lower, Head(kws)) THEN 1 ELSE 0) + Score(Tail(kws), lower)

ReasonDefault == "no strong keywords, defaulting to BigQuery"
ReasonES == "prompt contains Elasticsearch-related keywords"
ReasonBQ == "prompt contains BigQuery/analytics-related keywords"

\* Route over keyword lists esKws and bqKws, with a tie given to the search backend
RouteWith_TieToSearch(esKws, bqKws, prompt) ==
    LET esScore == Score(esKws, prompt)
        bqScore == Score(bqKws, prompt)
        total == esScore + bqScore
    IN  IF total = 0
        THEN [Source |-> DataSourceBigQuery, Confidence |-> 50, ESScore |-> 0,
              BQScore |-> 0, Reasoning |-> ReasonDefault]
        ELSE IF esScore >= bqScore
        THEN [Source |-> DataSourceElasticsearch,
              Confidence |-> (100 * esScore) \div total, ESScore |-> esScore,
              BQScore |-> bqScore, Reasoning |-> ReasonES]
        ELSE [Source |-> DataSourceBigQuery,
              Confidence |-> (100 * bqScore) \div total, ESScore |-> esScore,
              BQScore |-> bqScore, Reasoning |-> ReasonBQ]

\* IntentRouter.Route over the keyword lists esKws and bqKws; the confidence is
\* in hundredths, rounded down
RouteWith(esKws, bqKws, prompt) ==
    LET esScore == Score(esKws, prompt)
        bqScore == Score(bqKws, prompt)
        total == esScore + bqScore
    IN  IF total = 0
        THEN [Source |-> DataSourceBigQuery, Confidence |-> 50, ESScore |-> 0,
              BQScore |-> 0, Reasoning |-> ReasonDefault]
        ELSE IF esScore > bqScore
        THEN [Source |-> DataSourceElasticsearch,
              Confidence |-> (100 * esScore) \div total, ESScore |-> esScore,
              BQScore |-> bqScore, Reasoning |-> ReasonES]
        ELSE [Source |-> DataSourceBigQuery,
              Confidence |-> (100 * bqScore) \div total, ESScore |-> esScore,
              BQScore |-> bqScore, Reasoning |-> ReasonBQ]

\* IntentRouter.Route
Route(prompt) == RouteWith(elasticsearchKeywords, bigqueryKeywords, prompt)

\* the requests of the model: the body decodes or not, the prompt, the
\* data_source hint ("" for none)
Requests ==
    { [body |-> "ok", prompt |-> << "show", "orders", "today" >>, dataSource |-> ""],
      [body |-> "ok", prompt |-> << "show", "logs", "today" >>, dataSource |-> ""],
      [body |-> "ok", prompt |-> << "show", "logs", "orders" >>, dataSource |-> ""],
      [body |-> "ok", prompt |-> << "find", "all", "errors" >>,
       dataSource |-> DataSourceElasticsearch],
      [body |-> "ok", prompt |-> << "my", "password" >>, dataSource |-> "other"],
      [body |-> "ok", prompt |-> << "hello" >>, dataSource |-> DataSourceBigQuery],
      [body |-> "ok", prompt |-> << >>, dataSource |-> ""],
      [body |-> "bad", prompt |-> << >>, dataSource |-> ""] }

-----------------------------------------------------------------------------
(* DataMasker.  A cell value is a sequence of characters *)

Stars == << "*", "*", "*" >>
Digits == {"0", "1", "2", "3", "4", "5", "6", "7", "8", "9"}

\* the patterns of the masker on the column names of the model
emailRe(col) == col \in {"email", "user_email"}
phoneRe(col) == col \in {"phone"}
ssnRe(col) == col \in {"ssn"}
creditCardRe(col) == col \in {"card_number"}
fullMaskRe(col) == col \in {"api_key"}

\* the configured sensitive columns (config.DefaultSensitiveColumns) among
\* the column names of the model
sensitiveColumns == {"email", "phone", "ssn", "api_key"}

isSensitive(col) ==
    \/ col \in sensitiveColumns
    \/ emailRe(col) \/ phoneRe(col) \/ ssnRe(col) \/ creditCardRe(col) \/ fullMaskRe(col)

Positions(s, ch) == {i \in 1..Len(s) : s[i] = ch}
MaxOf(S) == CHOOSE x \in S : \A y \in S : y <= x
IsDigit(ch) == ch \in Digits

maskEmail(email) ==
    IF Cardinality(Positions(email, "@")) # 1 THEN Stars
    ELSE LET at == MaxOf(Positions(email, "@"))
             local == SubSeq(email, 1, at - 1)
             domain == SubSeq(email, at + 1, Len(email))
             visible == IF Len(local) < 2 THEN Len(local) ELSE 2
             ext == IF Positions(domain, ".") = {} THEN domain
                    ELSE SubSeq(domain, MaxOf(Positions(domain, ".")) + 1, Len(domain))
         IN  SubSeq(local, 1, visible) \o Stars \o << "@" >> \o Stars \o << "." >> \o ext

maskPhone(phone) ==
    LET digits == SelectSeq(phone, IsDigit) IN
    IF Len(digits) < 4
    THEN Stars \o << "-" >> \o Stars \o << "-", "*", "*", "*", "*" >>
    ELSE Stars \o << "-" >> \o Stars \o << "-" >>
         \o SubSeq(digits, Len(digits) - 3, Len(digits))

maskCreditCard(cc) ==
    LET digits == SelectSeq(cc, IsDigit)
        four == << "*", "*", "*", "*", "-" >>
    IN  IF Len(digits) < 4
        THEN four \o four \o four \o << "*", "*", "*", "*" >>
        ELSE four \o four \o four \o SubSeq(digits, Len(digits) - 3, Len(digits))

maskValue(col, val) ==
    IF emailRe(col) THEN maskEmail(val)
    ELSE IF phoneRe(col) THEN maskPhone(val)
    ELSE IF ssnRe(col) THEN Stars \o << "-", "*", "*", "-", "*", "*", "*", "*" >>
    ELSE IF creditCardRe(col) THEN maskCreditCard(val)
    ELSE Stars

\* every column masked, the sensitive ones or not
maskRow_AllColumns(row) ==
    [col \in DOMAIN row |-> maskValue(col, row[col])]

maskRow(row) ==
    [col \in DOMAIN row |-> IF isSensitive(col) THEN maskValue(col, row[col]) ELSE row[col]]

\* the rows handed on as the backend returned them
MaskRows_Identity(rows) == rows

\* DataMasker.MaskRows
MaskRows(rows) == [i \in 1..Len(rows) |-> maskRow(rows[i])]

\* the result sets the backend may return for a query
ResultSets ==
    { << >>,
      << [id |-> << "7" >>, email |-> << "j", "d", "o", "e", "@", "x", ".", "i", "o" >>],
         [id |-> << "8" >>, email |-> << "n", "o", "n", "e" >>] >>,
      << [phone |-> << "5", "5", "5", "-", "1", "2", "3", "4" >>,
          ssn |-> << "1", "2", "3" >>,
          api_key |-> << "k" >>,
          note |-> << "o", "k" >>] >> }

\* CostTracker: the byte limit
maxBytes == 2

\* CheckLimits with the limit never applied
CheckLimits_Always(totalBytesProcessed) == TRUE

\* CheckLimits with the limit itself refused
CheckLimits_Strict(totalBytesProcessed) == totalBytesProcessed < maxBytes

\* CostTracker.CheckLimits: the ok it returns
CheckLimits(totalBytesProcessed) == totalBytesProcessed <= maxBytes

\* "%.2fGB" of a byte count: hundredths of a GB, rounded
FormatGB(bytes) == (bytes * 100 + bytesPerGB \div 2) \div bytesPerGB

NoCostErr == [text |-> "", processed |-> -1, limit |-> -1]

\* CostTracker.CheckLimits: the message it returns
costErr(totalBytesProcessed) ==
    IF CheckLimits(totalBytesProcessed) THEN NoCostErr
    ELSE [text |-> "Query cost limit exceeded", processed |-> FormatGB(totalBytesProcessed),
          limit |-> FormatGB(maxBytes)]

\* the error of Run ignored
RunFailed_Ignored(ret) == FALSE

\* the test of the error Run returned
RunFailed(ret) == ret.err # "nil"

\* models.WriteError
WriteError(code) ==
    /\ httpStatus' = code
    /\ written' = "error"

\* models.WriteJSON with the AgentResponse
WriteJSON(code) ==
    /\ httpStatus' = code
    /\ written' = "response"

\* the status of what Handle returned, with every error answered alike
StatusOf_ErrorIs500(err, hasBody) == IF err # "nil" THEN 500 ELSE 200

\* the status QueryAgent answers what Handle returned with
StatusOf(err, hasBody) ==
    IF err # "nil" THEN (IF hasBody THEN 400 ELSE 500) ELSE 200

\* Handle returns and QueryAgent answers without adding the routing metadata
HandleReturn_NoRouting(status, err, md) ==
    /\ hret' = [status |-> status, err |-> err]
    /\ hpc' = "done"
    /\ metadata' = md
    /\ IF err # "nil" /\ status = "none"
       THEN WriteError(StatusOf(err, FALSE))
       ELSE WriteJSON(StatusOf(err, TRUE))

\* Handle returns (response, err), with md the metadata of the response, and
\* QueryAgent answers: an error with a response is answered with the
\* response, an error without one with its message, success with the response
HandleReturn(status, err, md) ==
    /\ hret' = [status |-> status, err |-> err]
    /\ hpc' = "done"
    /\ IF err # "nil" /\ status = "none"
       THEN /\ metadata' = md
            /\ WriteError(StatusOf(err, FALSE))
       ELSE /\ metadata' = [md EXCEPT !.routing_confidence = routingConf,
                                      !.routing_reasoning = routingReason]
            /\ WriteJSON(StatusOf(err, TRUE))

NoMetadata == [pii_check |-> "", prompt_validation |-> "", es_validation |-> "",
               sql_validation |-> "", cost_tracking |-> "", data_masking |-> "",
               routing_confidence |-> -1, tools_used |-> << >>,
               routing_reasoning |-> ""]
NoResult == [err |-> "none", bytes |-> 0, rows |-> << >>]
NoResponse == [Status |-> "", GeneratedSQL |-> "nil", rows |-> << >>]

\* the response of a blocking guard: status error, no SQL, no result
ErrorResponse == [Status |-> "error", GeneratedSQL |-> "nil", rows |-> << >>]

\* AuditLogger.LogAIAgentRequest
LogAIAgentRequest == audits' = audits + (IF auditEnabled THEN 1 ELSE 0)

\* the SQL text of the execute step given to the backend: the last SQL a tool ran
ExecuteQueryArg_LastSQL == lastExecutedSQL

\* the SQL text the execute step gives to bq.ExecuteQuery
ExecuteQueryArg == generatedSQL

\* the byte counts the backend may report for a query
BytesReports == {maxBytes, maxBytes + 1}

\* steps 1-5 up to the call of Run: the PII check, the prompt validation, for
\* the search pipeline the identifier validation, the tool set, for the
\* warehouse pipeline the system prompt, and the child context
HandleStart ==
    /\ hpc = "start"
    /\ IF Detect(req.prompt)
       THEN /\ stages' = stages \o << "pii" >>
            /\ response' = ErrorResponse
            /\ HandleReturn("error", "PII detected in prompt",
                            [metadata EXCEPT !.pii_check = "blocked"])
            /\ UNCHANGED <<pc, messages>>
       ELSE IF promptValidate(req.prompt) # "ok"
       THEN /\ stages' = stages \o << "pii", "prompt" >>
            /\ response' = ErrorResponse
            /\ HandleReturn("error", "prompt validation failed",
                            [metadata EXCEPT !.pii_check = "passed",
                                             !.prompt_validation = "blocked"])
            /\ UNCHANGED <<pc, messages>>
       ELSE \E v \in esPromptValidate(req.prompt) :
            IF handler = "es" /\ ~v.valid
            THEN /\ stages' = stages \o << "pii", "prompt", "ident" >>
                 /\ response' = ErrorResponse
                 /\ HandleReturn("error", "ES prompt validation failed",
                                 [metadata EXCEPT !.pii_check = "passed",
                                                  !.prompt_validation = "passed",
                                                  !.es_validation = "blocked"])
                 /\ UNCHANGED <<pc, messages>>
            ELSE /\ metadata' =
                      [metadata EXCEPT !.pii_check = "passed",
                                       !.prompt_validation = "passed",
                                       !.es_validation =
                                           IF handler = "es"
                                           THEN v.identType
                                           ELSE @]
                 /\ stages' = stages \o (IF handler = "es"
                                         THEN << "pii", "prompt", "ident", "agent" >>
                                         ELSE << "pii", "prompt", "schema", "agent" >>)
                 /\ hpc' = "run"
                 /\ pc' = "call"
                 /\ messages' = << Msg("user", << T(UserPrompt) >>) >>
                 /\ UNCHANGED <<hret, response, httpStatus, written>>
    /\ UNCHANGED <<iter, toolsUsed, lastExecutedSQL, textContent, pendingToolCalls,
                   tcIdx, toolResults, resp, finalResp, runRet, ctxDone, llmCalls,
                   execLog, varied>>
    /\ UNCHANGED <<generatedSQL, execResult, bqExecuted, audits, sqlValidated, result,
                   dryRun>>
    /\ UNCHANGED <<req, auditEnabled, handler, source, routingConf, routingReason>>
    /\ UNCHANGED <<cacheVars, auxVars>>

\* the dry-run flag left out of the test
runsSQL_IgnoreDryRun(sql, dry) == sql # ""

\* the generated SQL is validated and executed: there is SQL and the request
\* is not a dry run
runsSQL(sql, dry) == sql # "" /\ ~dry

\* Run has returned: the error test; in the search pipeline the audit and the
\* response; in the warehouse pipeline the SQL extraction with its fallback
\* and the SQL validation, or without SQL to execute the audit and the response
HandleAfterRun ==
    /\ hpc = "run"
    /\ pc = "done"
    /\ IF RunFailed(runRet)
       THEN /\ HandleReturn("none", "agent run", metadata)
            /\ UNCHANGED <<generatedSQL, stages, audits, sqlValidated, response, dryRun>>
       ELSE IF handler = "es"
       THEN /\ LogAIAgentRequest
            /\ stages' = stages \o << "audit" >>
            /\ response' = [Status |-> "success", GeneratedSQL |-> "nil", rows |-> << >>]
            /\ HandleReturn("success", "nil",
                            [metadata EXCEPT !.tools_used = << runRet.toolsUsed >>])
            /\ UNCHANGED <<generatedSQL, sqlValidated, dryRun>>
       ELSE LET extracted == extractSQL(runRet.text)
                sql == pickSQL(extracted, runRet.lastSQL)
                md == [metadata EXCEPT !.tools_used = << runRet.toolsUsed >>,
                                       !.sql_validation = "n/a",
                                       !.cost_tracking = "n/a",
                                       !.data_masking = "n/a"]
            IN  /\ generatedSQL' = sql
                /\ \E dry \in BOOLEAN :
                     /\ dryRun' = dry
                     /\ IF runsSQL(sql, dry)
                        THEN /\ sqlValidated' = Append(sqlValidated, sql)
                             /\ stages' = stages \o << "extract", "validate" >>
                             /\ UNCHANGED audits
                             /\ IF sqlValidate(sql) # ""
                                THEN /\ response' = ErrorResponse
                                     /\ HandleReturn("error", "SQL validation failed",
                                                     [md EXCEPT !.sql_validation = "blocked"])
                                ELSE /\ metadata' = [md EXCEPT !.sql_validation = "passed"]
                                     /\ hpc' = "exec"
                                     /\ UNCHANGED <<hret, response, httpStatus, written>>
                        ELSE /\ stages' = stages \o << "extract", "audit" >>
                             /\ LogAIAgentRequest
                             /\ response' = [Status |-> "success", GeneratedSQL |-> sql,
                                             rows |-> << >>]
                             /\ HandleReturn("success", "nil", md)
                             /\ UNCHANGED sqlValidated
    /\ UNCHANGED <<execResult, bqExecuted, result>>
    /\ UNCHANGED <<req, auditEnabled, handler, source, routingConf, routingReason>>
    /\ UNCHANGED <<agentVars, cacheVars, auxVars>>

\* step 7: the query runs on the backend under agentCtx; the cost check,
\* the masking, the audit and the response follow.  The rows of the result
\* are read only after the cost check has passed
HandleExec ==
    /\ hpc = "exec"
    /\ bqExecuted' = Append(bqExecuted, ExecuteQueryArg)
    /\ \E qOk \in (IF ctxDone THEN {FALSE} ELSE BOOLEAN) :
         IF ~qOk
         THEN /\ result' = [err |-> "failed", bytes |-> 0, rows |-> << >>]
              /\ stages' = stages \o << "execute", "audit" >>
              /\ execResult' = "none"
              /\ response' = [Status |-> "success", GeneratedSQL |-> generatedSQL,
                              rows |-> << >>]
              /\ HandleReturn("success", "nil", metadata)
         ELSE \E bytes \in BytesReports :
              IF ~CheckLimits(bytes)
              THEN /\ result' = [err |-> "nil", bytes |-> bytes, rows |-> << >>]
                   /\ stages' = stages \o << "execute", "cost", "audit" >>
                   /\ execResult' = "none"
                   /\ response' = [Status |-> "success",
                                   GeneratedSQL |-> generatedSQL, rows |-> << >>]
                   /\ HandleReturn("success", "nil",
                                   [metadata EXCEPT !.cost_tracking = "blocked"])
              ELSE \E rows \in ResultSets :
                   /\ result' = [err |-> "nil", bytes |-> bytes, rows |-> rows]
                   /\ stages' = stages \o << "execute", "cost", "mask", "audit" >>
                   /\ execResult' = "attached"
                   /\ response' = [Status |-> "success",
                                   GeneratedSQL |-> generatedSQL,
                                   rows |-> MaskRows(rows)]
                   /\ HandleReturn("success", "nil",
                                   [metadata EXCEPT !.cost_tracking = "ok",
                                                    !.data_masking = "applied"])
    /\ LogAIAgentRequest
    /\ UNCHANGED <<generatedSQL, sqlValidated, dryRun>>
    /\ UNCHANGED <<req, auditEnabled, handler, source, routingConf, routingReason>>
    /\ UNCHANGED <<agentVars, cacheVars, auxVars>>

-----------------------------------------------------------------------------
(* AgentHandler.QueryAgent *)

\* the request is decoded and checked, the data source is chosen by the hint
\* or by the router, and the pipeline of the source is looked up
QueryAgent ==
    /\ hpc = "http"
    /\ IF req.body # "ok"
       THEN /\ WriteError(400)
            /\ hpc' = "done"
            /\ UNCHANGED <<source, routingConf, routingReason, handler>>
       ELSE IF req.prompt = << >>
       THEN /\ WriteError(400)
            /\ hpc' = "done"
            /\ UNCHANGED <<source, routingConf, routingReason, handler>>
       ELSE LET routing == IF req.dataSource # ""
                           THEN [Source |-> req.dataSource, Confidence |-> 100,
                                 Reasoning |-> "explicitly specified by user"]
                           ELSE Route(req.prompt)
                selected == IF routing.Source = DataSourceElasticsearch
                            THEN "es" ELSE "bq"
            IN  /\ source' = routing.Source
                /\ routingConf' = routing.Confidence
                /\ routingReason' = routing.Reasoning
                /\ \E configured \in BOOLEAN :
                     IF ~configured
                     THEN /\ handler' = "nil"
                          /\ WriteError(503)
                          /\ hpc' = "done"
                     ELSE /\ handler' = selected
                          /\ hpc' = "start"
                          /\ UNCHANGED <<httpStatus, written>>
    /\ UNCHANGED <<req, auditEnabled>>
    /\ UNCHANGED <<generatedSQL, execResult, bqExecuted, hret, metadata, stages,
                   audits, sqlValidated, result, response, dryRun>>
    /\ UNCHANGED <<agentVars, cacheVars, auxVars>>

-----------------------------------------------------------------------------
(* The agent request: Handle and the Run it calls *)

NoEntry == [prompt |-> << >>, expiresAt |-> -1]

InitAgent ==
    /\ pc = "idle"
    /\ iter = 0
    /\ messages = << >>
    /\ toolsUsed = << >>
    /\ lastExecutedSQL = ""
    /\ textContent = << >>
    /\ pendingToolCalls = << >>
    /\ tcIdx = 1
    /\ toolResults = << >>
    /\ resp = NoResp
    /\ finalResp = << >>
    /\ runRet = NoRet
    /\ ctxDone = FALSE
    /\ llmCalls = << >>
    /\ execLog = << >>
    /\ varied = 0
    /\ hpc = "http"
    /\ generatedSQL = ""
    /\ execResult = "none"
    /\ bqExecuted = << >>
    /\ hret = [status |-> "none", err |-> "none"]
    /\ metadata = NoMetadata
    /\ stages = << >>
    /\ audits = 0
    /\ sqlValidated = << >>
    /\ result = NoResult
    /\ response = NoResponse
    /\ dryRun = FALSE
    /\ handler = "unset"
    /\ source = ""
    /\ routingConf = 0
    /\ routingReason = ""
    /\ httpStatus = 0
    /\ written = "none"

\* the request received; audit logging is on, as config.Load sets it
InitRequest ==
    /\ req \in Requests
    /\ auditEnabled = TRUE

\* no request is under way
InitNoRequest ==
    /\ req = [body |-> "bad", prompt |-> << >>, dataSource |-> ""]
    /\ auditEnabled = FALSE

InitCacheIdle ==
    /\ now = 0
    /\ bqAvail = TRUE
    /\ store = << >>
    /\ sfCalls = << >>
    /\ cpc = << >>
    /\ cds = << >>
    /\ cret = << >>
    /\ fetched = << >>
    /\ listings = << >>
    /\ batch = << >>

\* no request is at the rate limiter
InitRateIdle ==
    /\ clock = 0
    /\ windows = << >>
    /\ requests = << >>
    /\ nextWindow = 1
    /\ lastCleanup = -1
    /\ rpc = << >>
    /\ rkey = << >>
    /\ rsw = << >>
    /\ rresp = << >>
    /\ admitted = << >>

NoCall == [fn |-> "none"]

\* no request is at the rate limiter and no function is being called
InitAuxIdle == InitRateIdle /\ call = NoCall

Init == InitAgent /\ InitRequest /\ InitCacheIdle /\ InitAuxIdle

Next ==
    \/ QueryAgent
    \/ HandleStart
    \/ LLMCall
    \/ ExecTool
    \/ FinalCall
    \/ Cancel
    \/ HandleAfterRun
    \/ HandleExec

Spec == Init /\ [][Next]_vars

-----------------------------------------------------------------------------
(* schemaCache and BigQueryHandler.buildSystemPrompt *)

Callers == 1..NumCallers
Datasets == {"d1", "d2"}

\* the tables ListTables reports for a dataset
Tables == << "t1", "t2" >>

baseSystemPrompt == << "base" >>

\* a section written for every table, its schema read or not
RenderTables_AllTables(tables, bad) == tables

\* the prompt built from the tables whose schema could be read
RECURSIVE RenderTables(_, _)
RenderTables(tables, bad) ==
    IF tables = << >> THEN << >>
    ELSE (IF Head(tables) \in bad THEN << >> ELSE << Head(tables) >>)
         \o RenderTables(Tail(tables), bad)

BuildPrompt(d, tables, bad) ==
    baseSystemPrompt \o << d >> \o RenderTables(tables, bad) \o << "hint" >>

\* schemaCache.get without the test of the expiry time
get_ExpiredServed(d) ==
    IF store[d] = NoEntry
    THEN [ok |-> FALSE, prompt |-> << >>]
    ELSE [ok |-> TRUE, prompt |-> store[d].prompt]

\* schemaCache.get
get(d) ==
    IF store[d] = NoEntry \/ now > store[d].expiresAt
    THEN [ok |-> FALSE, prompt |-> << >>]
    ELSE [ok |-> TRUE, prompt |-> store[d].prompt]

\* schemaCache.set
set(d, prompt) ==
    [store EXCEPT ![d] = [prompt |-> prompt, expiresAt |-> now + schemaCacheTTL]]

\* the fetch without singleflight: every caller runs its own
InFlight_Never(d) == FALSE

\* singleflight.Group.Do: a call for the key is in flight
InFlight(d) == sfCalls[d] # 0

\* the fetch without the second look at the cache
DoubleCheck_Skipped(d) == [ok |-> FALSE, prompt |-> << >>]

\* the second look at the cache, inside the coalesced fetch
DoubleCheck(d) == get(d)

\* the listing failure answered by caching the base prompt
StoreAfterList_CacheFailure(d, ok, prompt) == set(d, prompt)

\* the store after ListTables returned: the prompt is cached on success only
StoreAfterList(d, ok, prompt) == IF ok THEN set(d, prompt) ELSE store

NoFetch == [val |-> << >>, listed |-> FALSE, failed |-> FALSE, storeBefore |-> NoEntry,
            shared |-> FALSE, needIdx |-> 0, bad |-> {}]

NoBatch == [first |-> 0, open |-> FALSE, pending |-> {}, n |-> 0, cold |-> FALSE,
            lists |-> 0, prompts |-> {}, failed |-> FALSE, expired |-> FALSE]

ListingInFlight(d) == \E c \in Callers : cpc[c] = "listing" /\ cds[c] = d

\* the batch of d after call c is issued
BatchOnBegin(c, d) ==
    IF batch[d].pending = {}
    THEN [first |-> c, open |-> TRUE, pending |-> {c}, n |-> 1, cold |-> ~get(d).ok,
          lists |-> (IF ListingInFlight(d) THEN 1 ELSE 0), prompts |-> {},
          failed |-> FALSE, expired |-> FALSE]
    ELSE IF batch[d].open
    THEN [batch[d] EXCEPT !.pending = @ \cup {c}, !.n = @ + 1]
    ELSE batch[d]

\* the batches after call c returns prompt
BatchOnReturn(c, prompt) ==
    LET d == cds[c] IN
    IF d \in Datasets /\ c \in batch[d].pending
    THEN [batch EXCEPT ![d] = [@ EXCEPT !.pending = @ \ {c},
                                        !.prompts = @ \cup {prompt},
                                        !.open = @ /\ c # batch[d].first]]
    ELSE batch

\* buildSystemPrompt returns prompt to caller c
Complete(c, prompt) ==
    /\ cret' = [cret EXCEPT ![c] = prompt]
    /\ cpc' = [cpc EXCEPT ![c] = "returned"]
    /\ batch' = BatchOnReturn(c, prompt)

\* the test for the adapter left out
skipsCache_IgnoreAdapter(d) == d = ""

\* the call is answered with the base prompt at once: no dataset id or no
\* warehouse adapter
skipsCache(d) == d = "" \/ ~bqAvail

\* a caller enters buildSystemPrompt; an empty dataset id or a missing
\* warehouse adapter ends the call at once.  The goroutines are
\* interchangeable: they make their calls in the order of their numbers
BeginCall(c, d) ==
    /\ cpc[c] = "idle"
    /\ \A c2 \in Callers : c2 < c => cpc[c2] # "idle"
    /\ cds' = [cds EXCEPT ![c] = d]
    /\ IF skipsCache(d)
       THEN /\ cret' = [cret EXCEPT ![c] = baseSystemPrompt]
            /\ cpc' = [cpc EXCEPT ![c] = "returned"]
            /\ fetched' = [fetched EXCEPT ![c] = NoFetch]
            /\ UNCHANGED batch
       ELSE /\ cpc' = [cpc EXCEPT ![c] = "get"]
            /\ fetched' = [fetched EXCEPT ![c] =
                              [NoFetch EXCEPT !.needIdx = listings[d].failIdx]]
            /\ batch' = [batch EXCEPT ![d] = BatchOnBegin(c, d)]
            /\ UNCHANGED cret
    /\ UNCHANGED <<now, bqAvail, store, sfCalls, listings>>
    /\ UNCHANGED <<agentVars, handleVars, httpVars, auxVars>>

\* the fast path: a live cache entry is returned
CacheGet(c) ==
    /\ cpc[c] = "get"
    /\ IF get(cds[c]).ok
       THEN Complete(c, get(cds[c]).prompt)
       ELSE /\ cpc' = [cpc EXCEPT ![c] = "do"]
            /\ UNCHANGED <<cret, batch>>
    /\ UNCHANGED <<now, bqAvail, store, sfCalls, cds, fetched, listings>>
    /\ UNCHANGED <<agentVars, handleVars, httpVars, auxVars>>

\* sf.Do: join the call in flight for the key, or register a new one
SfDo(c) ==
    /\ cpc[c] = "do"
    /\ IF InFlight(cds[c])
       THEN /\ cpc' = [cpc EXCEPT ![c] = "wait"]
            /\ fetched' = [fetched EXCEPT ![c].shared = TRUE]
            /\ UNCHANGED sfCalls
       ELSE /\ cpc' = [cpc EXCEPT ![c] = "fn_get"]
            /\ sfCalls' = [sfCalls EXCEPT ![cds[c]] = c]
            /\ UNCHANGED fetched
    /\ UNCHANGED <<now, bqAvail, store, cds, cret, listings, batch>>
    /\ UNCHANGED <<agentVars, handleVars, httpVars, auxVars>>

\* the start of the coalesced function: the second look at the cache, and on
\* a miss the call of ListTables
FnGet(c) ==
    /\ cpc[c] = "fn_get"
    /\ LET d == cds[c] IN
       IF DoubleCheck(d).ok
       THEN /\ fetched' = [fetched EXCEPT ![c].val = DoubleCheck(d).prompt]
            /\ cpc' = [cpc EXCEPT ![c] = "fn_done"]
            /\ UNCHANGED <<listings, batch>>
       ELSE /\ fetched' = [fetched EXCEPT ![c].storeBefore = store[d],
                                            ![c].listed = TRUE]
            /\ cpc' = [cpc EXCEPT ![c] = "listing"]
            /\ listings' = [listings EXCEPT ![d].count = @ + 1]
            /\ batch' = [batch EXCEPT ![d].lists = @ + 1,
                                      ![d].expired = @ \/ (/\ batch[d].lists >= 1
                                                           /\ store[d] # NoEntry
                                                           /\ now > store[d].expiresAt)]
    /\ UNCHANGED <<now, bqAvail, store, sfCalls, cds, cret>>
    /\ UNCHANGED <<agentVars, handleVars, httpVars, auxVars>>

\* ListTables returns; on success the schema of each table is read, the
\* prompt is rendered and cached; on failure the base prompt is the result
ListTablesReturn(c) ==
    /\ cpc[c] = "listing"
    /\ LET d == cds[c] IN
       \E ok \in BOOLEAN, bad \in SUBSET {Tables[j] : j \in 1..Len(Tables)} :
          LET prompt == IF ok THEN BuildPrompt(d, Tables, bad) ELSE baseSystemPrompt IN
          /\ ~ok => bad = {}
          /\ store' = StoreAfterList(d, ok, prompt)
          /\ fetched' = [fetched EXCEPT ![c].val = prompt, ![c].failed = ~ok,
                                       ![c].bad = bad]
          /\ batch' = [batch EXCEPT ![d].failed = @ \/ ~ok]
    /\ cpc' = [cpc EXCEPT ![c] = "fn_done"]
    /\ UNCHANGED <<now, bqAvail, sfCalls, cds, cret, listings>>
    /\ UNCHANGED <<agentVars, handleVars, httpVars, auxVars>>

\* the end of sf.Do for the leader: the key is removed, the callers waiting
\* on the call are released with its value, and buildSystemPrompt returns it
LeaderFinish(c) ==
    /\ cpc[c] = "fn_done"
    /\ LET d == cds[c]
           waiters == {w \in Callers : cpc[w] = "wait" /\ cds[w] = d}
       IN  /\ sfCalls' = [sfCalls EXCEPT ![d] = 0]
           /\ fetched' = [w \in Callers |->
                            IF w \in waiters
                            THEN [fetched[w] EXCEPT !.val = fetched[c].val,
                                                    !.listed = fetched[c].listed,
                                                    !.failed = fetched[c].failed]
                            ELSE fetched[w]]
           /\ cpc' = [w \in Callers |->
                        IF w \in waiters THEN "woken"
                        ELSE IF w = c THEN "returned" ELSE cpc[w]]
           /\ cret' = [cret EXCEPT ![c] = fetched[c].val]
           /\ batch' = BatchOnReturn(c, fetched[c].val)
           /\ listings' = [listings EXCEPT ![d].failIdx =
                              IF ~fetched[c].listed THEN @
                              ELSE IF fetched[c].failed THEN listings[d].count ELSE 0]
    /\ UNCHANGED <<now, bqAvail, store, cds>>
    /\ UNCHANGED <<agentVars, handleVars, httpVars, auxVars>>

\* a caller that waited on the call in flight returns the shared value
WaiterReturn(c) ==
    /\ cpc[c] = "woken"
    /\ Complete(c, fetched[c].val)
    /\ UNCHANGED <<now, bqAvail, store, sfCalls, cds, fetched, listings>>
    /\ UNCHANGED <<agentVars, handleVars, httpVars, auxVars>>

\* time passes, schemaCacheTTL minutes at a step.  The clock is read only to
\* stamp an entry and to compare with the expiry of an entry, so time counts
\* only while an entry is live
Tick ==
    /\ now < MaxTicks * schemaCacheTTL
    /\ \E d \in Datasets : store[d] # NoEntry /\ now <= store[d].expiresAt
    /\ now' = now + schemaCacheTTL
    /\ UNCHANGED <<bqAvail, store, sfCalls, cpc, cds, cret, fetched, listings,
                   batch>>
    /\ UNCHANGED <<agentVars, handleVars, httpVars, auxVars>>

InitCache ==
    /\ now = 0
    /\ bqAvail \in BOOLEAN
    /\ store = [d \in Datasets |-> NoEntry]
    /\ sfCalls = [d \in Datasets |-> 0]
    /\ cpc = [c \in Callers |-> "idle"]
    /\ cds = [c \in Callers |-> ""]
    /\ cret = [c \in Callers |-> << >>]
    /\ fetched = [c \in Callers |-> NoFetch]
    /\ listings = [d \in Datasets |-> [count |-> 0, failIdx |-> 0]]
    /\ batch = [d \in Datasets |-> NoBatch]

NextCache ==
    \/ \E c \in Callers, d \in Datasets \cup {""} : BeginCall(c, d)
    \/ \E c \in Callers : CacheGet(c)
    \/ \E c \in Callers : SfDo(c)
    \/ \E c \in Callers : FnGet(c)
    \/ \E c \in Callers : ListTablesReturn(c)
    \/ \E c \in Callers : LeaderFinish(c)
    \/ \E c \in Callers : WaiterReturn(c)
    \/ Tick

InitCacheSpec == InitAgent /\ InitNoRequest /\ InitCache /\ InitAuxIdle

SpecCache == InitCacheSpec /\ [][NextCache]_vars

-----------------------------------------------------------------------------
(* RateLimiter and the RateLimit middleware *)

RateKeys == {"k1", "k2"}
Reqs == 1..NumRequests

NoRateResp == [status |-> -1, retryAfter |-> -1, remaining |-> -1, at |-> -1]

\* the entries of window sw younger than windowDur
valid(sw) == SelectSeq(requests[sw], LAMBDA t : t > clock - windowDur)

\* the admission test of slidingWindow.allow
Full(sw) == Len(valid(sw)) >= limit

\* the key of the request is read and RateLimiter.window returns the window
\* of the key, a new one if the map holds none.  The requests are
\* interchangeable: they arrive in the order of their numbers
Window(r, key) ==
    /\ rpc[r] = "idle"
    /\ \A r2 \in Reqs : r2 < r => rpc[r2] # "idle"
    /\ rkey' = [rkey EXCEPT ![r] = key]
    /\ IF windows[key] # 0
       THEN /\ rsw' = [rsw EXCEPT ![r] = windows[key]]
            /\ UNCHANGED <<windows, nextWindow>>
       ELSE /\ rsw' = [rsw EXCEPT ![r] = nextWindow]
            /\ windows' = [windows EXCEPT ![key] = nextWindow]
            /\ nextWindow' = nextWindow + 1
    /\ rpc' = [rpc EXCEPT ![r] = "allow"]
    /\ UNCHANGED <<clock, requests, lastCleanup, rresp, admitted, call>>
    /\ UNCHANGED <<agentVars, handleVars, httpVars, cacheVars>>

\* slidingWindow.allow under the mutex of the window, and the answer of the
\* middleware: the headers, and 429 or the next handler (status 0)
Allow(r) ==
    /\ rpc[r] = "allow"
    /\ LET sw == rsw[r] IN
       IF Full(sw)
       THEN /\ requests' = [requests EXCEPT ![sw] = valid(sw)]
            /\ rresp' = [rresp EXCEPT ![r] = [status |-> 429, retryAfter |-> retryAfter,
                                              remaining |-> 0, at |-> clock]]
            /\ UNCHANGED admitted
       ELSE /\ requests' = [requests EXCEPT ![sw] = Append(valid(sw), clock)]
            /\ rresp' = [rresp EXCEPT ![r] =
                            [status |-> 0, retryAfter |-> -1,
                             remaining |-> limit - (Len(valid(sw)) + 1), at |-> clock]]
            /\ admitted' = [admitted EXCEPT ![rkey[r]] = Append(@, clock)]
    /\ rpc' = [rpc EXCEPT ![r] = "done"]
    /\ UNCHANGED <<clock, windows, nextWindow, lastCleanup, rkey, rsw, call>>
    /\ UNCHANGED <<agentVars, handleVars, httpVars, cacheVars>>

\* RateLimiter.cleanup, run by the ticker: the windows that are empty or whose
\* last entry is older than cleanupAge leave the map
cleanup ==
    /\ lastCleanup = -1 \/ clock >= lastCleanup + cleanupPeriod
    /\ lastCleanup' = clock
    /\ windows' = [k \in RateKeys |->
                     IF /\ windows[k] # 0
                        /\ \/ requests[windows[k]] = << >>
                           \/ requests[windows[k]][Len(requests[windows[k]])]
                                 < clock - cleanupAge
                     THEN 0 ELSE windows[k]]
    /\ UNCHANGED <<clock, requests, nextWindow, rpc, rkey, rsw, rresp, admitted, call>>
    /\ UNCHANGED <<agentVars, handleVars, httpVars, cacheVars>>

\* time passes
RateTick ==
    /\ clock < MaxClockSteps * ClockStep
    /\ clock' = clock + ClockStep
    /\ UNCHANGED <<windows, requests, nextWindow, lastCleanup, rpc, rkey, rsw, rresp,
                   admitted, call>>
    /\ UNCHANGED <<agentVars, handleVars, httpVars, cacheVars>>

InitRate ==
    /\ clock = 0
    /\ windows = [k \in RateKeys |-> 0]
    /\ requests = [w \in Reqs |-> << >>]
    /\ nextWindow = 1
    /\ lastCleanup = -1
    /\ rpc = [r \in Reqs |-> "idle"]
    /\ rkey = [r \in Reqs |-> ""]
    /\ rsw = [r \in Reqs |-> 0]
    /\ rresp = [r \in Reqs |-> NoRateResp]
    /\ admitted = [k \in RateKeys |-> << >>]
    /\ call = NoCall

NextRate ==
    \/ \E r \in Reqs, key \in RateKeys : Window(r, key)
    \/ \E r \in Reqs : Allow(r)
    \/ cleanup
    \/ RateTick

InitRateSpec == InitAgent /\ InitNoRequest /\ InitCacheIdle /\ InitRate

SpecRate == InitRateSpec /\ [][NextRate]_vars

-----------------------------------------------------------------------------
(* Route, CheckLimits and AgentRequest.SetDefaults, each called on an input *)

RouterWords == {"show", "hello", "logs", "log", "exception", "table", "orders"}

Prompts == UNION {[1..n -> RouterWords] : n \in 0..MaxPromptWords}

\* byte counts around the limit, and two that do not format as 0.00GB
ByteCounts == 0..(maxBytes + 2) \cup {6000000, 14000000}

Timeouts == (0 - TimeoutMargin)..(600 + TimeoutMargin)

\* SetDefaults without the lower clamp
SetDefaults_NoLowerClamp(timeout) ==
    LET t1 == IF timeout = 0 THEN 300 ELSE timeout
    IN  IF t1 > 600 THEN 600 ELSE t1

\* AgentRequest.SetDefaults: the timeout it leaves in the request
SetDefaults(timeout) ==
    LET t1 == IF timeout = 0 THEN 300 ELSE timeout
        t2 == IF t1 < 10 THEN 10 ELSE t1
    IN  IF t2 > 600 THEN 600 ELSE t2

\* the deadline of agentCtx, in seconds from the start of the run
agentTimeout(reqTimeout) == reqTimeout

\* An SQL text is a sequence of tokens: a white-space character, the
\* separator ";", or a whole word (two words never stand next to each other
\* without a separator between them).
IsSpace(t) == t \in {" ", "\n"}
IsWord(t) == ~IsSpace(t) /\ t # ";"

\* the first words and the clauses the texts are put together from
SQLLeads == { << >>, << " " >>, << "\n" >> }
SQLHeads == { << >>, << "SELECT" >>, << "select" >>, << "WITH" >>, << "DROP" >>,
              << "x" >>, << "SELECTED" >>, << "UNION" >> }
SQLClauses == { << " ", "x" >>,
                << " ", "UNION", " ", "SELECT" >>,
                << "\n", "union", " ", "\n", "select" >>,
                << " ", "UNION", " ", "ALL", " ", "SELECT" >>,
                << " ", "REUNION", " ", "SELECT" >>,
                << ";", " ", "DROP", " " >>,
                << ";", "drop", "\n", "x" >>,
                << ";", " ", "DROP" >>,
                << " " >> }

RECURSIVE SQLBodies(_)
SQLBodies(n) ==
    IF n = 0 THEN { << >> }
    ELSE { << >> } \cup {c \o b : c \in SQLClauses, b \in SQLBodies(n - 1)}

SQLTexts == {l \o h \o b : l \in SQLLeads, h \in SQLHeads, b \in SQLBodies(MaxClauses)}

\* strings.ToUpper on one token
UpperOf(t) ==
    CASE t = "select" -> "SELECT"
      [] t = "union" -> "UNION"
      [] t = "drop" -> "DROP"
      [] OTHER -> t

ToUpper(sql) == [i \in 1..Len(sql) |-> UpperOf(sql[i])]

RECURSIVE TrimLeft(_)
TrimLeft(sql) ==
    IF sql = << >> \/ ~IsSpace(Head(sql)) THEN sql ELSE TrimLeft(Tail(sql))

RECURSIVE TrimRight(_)
TrimRight(sql) ==
    IF sql = << >> \/ ~IsSpace(sql[Len(sql)]) THEN sql
    ELSE TrimRight(SubSeq(sql, 1, Len(sql) - 1))

\* strings.TrimSpace
TrimSpace(sql) == TrimRight(TrimLeft(sql))

\* strings.HasPrefix for a keyword: the first word starts with its letters
HasPrefix(sql, keyword) ==
    /\ sql # << >>
    /\ \/ sql[1] = keyword
       \/ sql[1] = "SELECTED" /\ keyword = "SELECT"

\* the first position from i on that holds no white space
RECURSIVE SkipSpaces(_, _)
SkipSpaces(sql, i) ==
    IF i > Len(sql) \/ ~IsSpace(sql[i]) THEN i ELSE SkipSpaces(sql, i + 1)

\* (?i);\s*DROP\s+ , for the patterns of a second statement
matchStacked(sql) ==
    \E i \in 1..Len(sql) :
        /\ sql[i] = ";"
        /\ LET j == SkipSpaces(sql, i + 1)
           IN  /\ j <= Len(sql)
               /\ UpperOf(sql[j]) = "DROP"
               /\ j + 1 <= Len(sql)
               /\ IsSpace(sql[j + 1])

\* the pattern with UNION ALL SELECT matched as well
matchUnionSelect_AllToo(sql) ==
    \E i, j \in 1..Len(sql) :
        /\ i < j
        /\ UpperOf(sql[i]) = "UNION"
        /\ UpperOf(sql[j]) = "SELECT"
        /\ \A k \in (i + 1)..(j - 1) : IsSpace(sql[k]) \/ sql[k] = "ALL"

\* (?i)\bUNION\s+SELECT\b
matchUnionSelect(sql) ==
    \E i \in 1..Len(sql) :
        /\ UpperOf(sql[i]) = "UNION"
        /\ i = 1 \/ ~IsWord(sql[i - 1])
        /\ i + 1 <= Len(sql)
        /\ IsSpace(sql[i + 1])
        /\ LET j == SkipSpaces(sql, i + 1)
           IN  /\ j <= Len(sql)
               /\ UpperOf(sql[j]) = "SELECT"
               /\ j = Len(sql) \/ ~IsWord(sql[j + 1])

\* SQLValidator.Validate: the message it returns, "" for an accepted text
SQLValidatorValidate(sql) ==
    IF TrimSpace(sql) = << >> THEN "SQL cannot be empty"
    ELSE LET upperSQL == ToUpper(TrimSpace(sql))
         IN  IF ~HasPrefix(upperSQL, "SELECT") /\ ~HasPrefix(upperSQL, "WITH")
             THEN "only SELECT queries are allowed"
             ELSE IF matchStacked(sql)
             THEN "SQL injection pattern detected: ;DROP"
             ELSE IF matchUnionSelect(sql)
             THEN "SQL injection pattern detected: UNION SELECT"
             ELSE ""

\* the words of the prompts given to ESPromptValidator.Validate
ESWords == {"find", "all", "any", "errors", "logs", "today", "order_id", "v",
            "GET", "/api"}

ESPrompts == UNION {[1..n -> ESWords] : n \in 0..MaxESWords}

\* the cell values of the rows given to MaskRows
MaskValues ==
    { Stars,
      << "j", "d", "o", "e", "@", "x", ".", "i", "o" >>,
      << "j", "@", "x", ".", "i", "o" >>,
      << "j", "d", "*", "*", "*", "@", "*", "*", "*", ".", "i", "o" >>,
      << "n", "o", "n", "e" >>,
      << "5", "5", "5", "-", "1", "2", "3", "4" >>,
      << "*", "*", "*", "-", "*", "*", "*", "-", "1", "2", "3", "4" >>,
      << "*", "*", "*", "-", "*", "*", "*", "-", "*", "*", "*", "*" >>,
      << "*", "*", "*", "-", "*", "*", "-", "*", "*", "*", "*" >>,
      << "4", "1", "1", "1" >>,
      << "*", "*", "*", "*", "-", "*", "*", "*", "*", "-", "*", "*", "*", "*", "-", "4", "1", "1", "1" >>,
      << "k" >> }

\* a row: one column that may be sensitive, and the column note
MaskColumns == {"email", "user_email", "phone", "ssn", "card_number", "api_key", "id"}

RowsIn ==
    UNION { [{col, "note"} -> MaskValues] : col \in MaskColumns }

LastRow == [api_key |-> Stars, note |-> << "k" >>]

RowSets == { << >> } \cup { << r >> : r \in RowsIn } \cup { << r, LastRow >> : r \in RowsIn }

\* extractSQL on texts spelled out in tokens: a white-space character, a
\* fence of three backquotes, written "~~~" (and "~~~sql" with the tag sql),
\* the separator ";", or a whole word; two words have one white-space
\* character between them.  The texts hold no CTE: strategy 3a
\* (reMultilineSQL) finds nothing in them.
Fences == {"~~~", "~~~sql"}

MinOf(S) == CHOOSE x \in S : \A y \in S : x <= y

\* strings.Index: the first position from 1 on that holds a token of S, or 0
FirstIn(text, S) ==
    LET I == {i \in 1..Len(text) : text[i] \in S}
    IN  IF I = {} THEN 0 ELSE MinOf(I)

\* strings.TrimSuffix(s, ";")
TrimSuffix(text) ==
    IF text # << >> /\ text[Len(text)] = ";" THEN SubSeq(text, 1, Len(text) - 1)
    ELSE text

\* strategy 1: the body of the first block fenced with the tag sql
sqlBlock(text) ==
    LET idx == FirstIn(text, {"~~~sql"}) IN
    IF idx = 0 THEN << >>
    ELSE LET body0 == SubSeq(text, idx + 1, Len(text))
             body == IF body0 # << >> /\ body0[1] = "\n" THEN Tail(body0) ELSE body0
             end == FirstIn(body, Fences)
         IN  IF end = 0 THEN << >> ELSE TrimSpace(SubSeq(body, 1, end - 1))

\* strings.Split(text, "~~~"): the part after the n-th fence, with the
\* letters of the tag at its start
PartAfter(text, n) ==
    LET F == {i \in 1..Len(text) : text[i] \in Fences}
        a == CHOOSE i \in F : Cardinality({k \in F : k <= i}) = n
        later == {i \in F : i > a}
        b == IF later = {} THEN Len(text) + 1 ELSE MinOf(later)
    IN  (IF text[a] = "~~~sql" THEN << "sql" >> ELSE << >>) \o SubSeq(text, a + 1, b - 1)

\* the candidate of a part: trimmed, without its first line when that line
\* holds no SELECT
Candidate(part) ==
    LET c == TrimSpace(part)
        nl == FirstIn(c, {"\n"})
    IN  IF nl # 0 /\ \A k \in 1..(nl - 1) : UpperOf(c[k]) # "SELECT"
        THEN TrimSpace(SubSeq(c, nl, Len(c)))
        ELSE c

\* strategy 2: the first fenced block that starts with SELECT
codeBlock(text) ==
    LET n == Cardinality({i \in 1..Len(text) : text[i] \in Fences})
        found == {k \in 1..n : k % 2 = 1
                               /\ HasPrefix(ToUpper(Candidate(PartAfter(text, k))), "SELECT")}
    IN  IF found = {} THEN << >>
        ELSE TrimSuffix(TrimSpace(Candidate(PartAfter(text, MinOf(found)))))

\* LIMIT\s+\d+ at position e: the position of the number, or 0
LimitAt(text, e) ==
    LET d == SkipSpaces(text, e + 1)
    IN  IF UpperOf(text[e]) = "LIMIT" /\ d > e + 1 /\ d <= Len(text) /\ text[d] \in Digits
        THEN d ELSE 0

\* (?is)(SELECT\s+.+?FROM\s+.+?(?:LIMIT\s+\d+|;\s*$|\z)): the leftmost match
reSelectBlock(text) ==
    LET FromOK(i, j) == /\ j >= i + 3
                        /\ UpperOf(text[j]) = "FROM"
                        /\ j + 2 <= Len(text)
                        /\ IsSpace(text[j + 1])
        starts == {i \in 1..(Len(text) - 1) :
                      /\ UpperOf(text[i]) = "SELECT"
                      /\ IsSpace(text[i + 1])
                      /\ \E j \in 1..Len(text) : FromOK(i, j)}
    IN  IF starts = {} THEN << >>
        ELSE LET i == MinOf(starts)
                 j == MinOf({k \in 1..Len(text) : FromOK(i, k)})
                 ends == {e \in (j + 3)..Len(text) :
                             \/ LimitAt(text, e) # 0
                             \/ text[e] = ";" /\ SkipSpaces(text, e + 1) > Len(text)}
                 last == IF ends = {} THEN Len(text)
                         ELSE IF LimitAt(text, MinOf(ends)) # 0
                         THEN LimitAt(text, MinOf(ends))
                         ELSE Len(text)
             IN  SubSeq(text, i, last)

\* strategy 3b: the SELECT block, when it holds " FROM "
selectBlock(text) ==
    LET c == TrimSuffix(TrimSpace(reSelectBlock(text)))
    IN  IF \E k \in 2..(Len(c) - 1) :
              UpperOf(c[k]) = "FROM" /\ c[k - 1] = " " /\ c[k + 1] = " "
        THEN c ELSE << >>

\* (?i)(SELECT\s+\S.+?\bFROM\b\s+\S+): the leftmost match
reSingleSQL(text) ==
    LET FromOK(i, j) == /\ j > SkipSpaces(text, i + 1) + 1
                        /\ UpperOf(text[j]) = "FROM"
                        /\ \A k \in SkipSpaces(text, i + 1)..(j - 1) : text[k] # "\n"
                        /\ j + 1 <= Len(text)
                        /\ IsSpace(text[j + 1])
                        /\ SkipSpaces(text, j + 1) <= Len(text)
        starts == {i \in 1..(Len(text) - 1) :
                      /\ UpperOf(text[i]) = "SELECT"
                      /\ IsSpace(text[i + 1])
                      /\ \E j \in 1..Len(text) : FromOK(i, j)}
    IN  IF starts = {} THEN << >>
        ELSE LET i == MinOf(starts)
                 j == MinOf({k \in 1..Len(text) : FromOK(i, k)})
                 w == SkipSpaces(text, j + 1)
                 spaces == {k \in w..Len(text) : IsSpace(text[k])}
                 last == IF spaces = {} THEN Len(text) ELSE MinOf(spaces) - 1
             IN  SubSeq(text, i, last)

\* the single-line SELECT looked for before the SELECT block
extractSQLText_SingleLineFirst(text) ==
    IF sqlBlock(text) # << >> THEN sqlBlock(text)
    ELSE IF codeBlock(text) # << >> THEN codeBlock(text)
    ELSE IF reSingleSQL(text) # << >> THEN TrimSuffix(TrimSpace(reSingleSQL(text)))
    ELSE selectBlock(text)

\* extractSQL: the strategies in their order, << >> when none finds SQL
extractSQLText(text) ==
    IF sqlBlock(text) # << >> THEN sqlBlock(text)
    ELSE IF codeBlock(text) # << >> THEN codeBlock(text)
    ELSE IF selectBlock(text) # << >> THEN selectBlock(text)
    ELSE TrimSuffix(TrimSpace(reSingleSQL(text)))

\* the texts given to extractSQL: prose, a statement bare or in a fenced
\* block, prose
SQLStatements ==
    { << >>,
      << "p" >>,
      << "SELECT", " ", "x" >>,
      << "SELECT", " ", "x", " ", "FROM", " ", "t" >>,
      << "SELECT", " ", "x", " ", "FROM", " ", "t", " ", "LIMIT", " ", "5" >>,
      << "SELECT", " ", "x", " ", "FROM", " ", "t", " ", "LIMIT", " ", "5", " ",
         "OFFSET", " ", "2" >>,
      << "SELECT", " ", "x", "\n", "FROM", " ", "t" >>,
      << "SELECT", " ", "x", " ", "FROM", " ", "t", ";" >>,
      << "SELECT", " ", "x", " ", "FROM", " ", "t", " ", ";" >> }

LLMTexts ==
    {pre \o block \o post :
        pre \in { << >>, << "p", " " >>, << "p", "\n" >> },
        block \in SQLStatements
                  \cup { << "~~~sql", "\n" >> \o b \o << "\n", "~~~" >> : b \in SQLStatements }
                  \cup { << "~~~", "\n" >> \o b \o << "\n", "~~~" >> : b \in SQLStatements },
        post \in { << >>, << "\n", "p" >> }}

Calls ==
    [fn : {"Route"}, arg : Prompts, pos : {"in"}]
    \cup [fn : {"extractSQL"}, arg : LLMTexts, pos : {"in"}]
    \cup [fn : {"MaskRows"}, arg : RowSets, pos : {"in"}]
    \cup [fn : {"ESValidate"}, arg : ESPrompts, pos : {"in"}]
    \cup [fn : {"SQLValidate"}, arg : SQLTexts, pos : {"in"}]
    \cup [fn : {"CheckLimits"}, arg : ByteCounts, pos : {"in"}]
    \cup [fn : {"SetDefaults"}, arg : Timeouts, pos : {"in"}]

ApplyRoute ==
    /\ call.fn = "Route" /\ call.pos = "in"
    /\ call' = [fn |-> "Route", arg |-> call.arg, pos |-> "out",
                out |-> Route(call.arg)]
    /\ UNCHANGED <<agentVars, handleVars, httpVars, cacheVars, rateVars>>

ApplyCheckLimits ==
    /\ call.fn = "CheckLimits" /\ call.pos = "in"
    /\ call' = [fn |-> "CheckLimits", arg |-> call.arg, pos |-> "out",
                out |-> [ok |-> CheckLimits(call.arg), msg |-> costErr(call.arg)]]
    /\ UNCHANGED <<agentVars, handleVars, httpVars, cacheVars, rateVars>>

ApplySQLValidate ==
    /\ call.fn = "SQLValidate" /\ call.pos = "in"
    /\ call' = [fn |-> "SQLValidate", arg |-> call.arg, pos |-> "out",
                out |-> SQLValidatorValidate(call.arg)]
    /\ UNCHANGED <<agentVars, handleVars, httpVars, cacheVars, rateVars>>

ApplyExtractSQL ==
    /\ call.fn = "extractSQL" /\ call.pos = "in"
    /\ call' = [fn |-> "extractSQL", arg |-> call.arg, pos |-> "once",
                out |-> extractSQLText(call.arg)]
    /\ UNCHANGED <<agentVars, handleVars, httpVars, cacheVars, rateVars>>

\* extractSQL is called on the SQL it has extracted
ApplyExtractSQLAgain ==
    /\ call.fn = "extractSQL" /\ call.pos = "once"
    /\ call' = [fn |-> "extractSQL", arg |-> call.arg, pos |-> "out",
                out |-> call.out, again |-> extractSQLText(call.out)]
    /\ UNCHANGED <<agentVars, handleVars, httpVars, cacheVars, rateVars>>

ApplyMaskRows ==
    /\ call.fn = "MaskRows" /\ call.pos = "in"
    /\ call' = [fn |-> "MaskRows", arg |-> call.arg, pos |-> "out",
                out |-> MaskRows(call.arg)]
    /\ UNCHANGED <<agentVars, handleVars, httpVars, cacheVars, rateVars>>

\* a request with the prompt call.arg has its identifiers validated
ApplyESValidate ==
    /\ call.fn = "ESValidate" /\ call.pos = "in"
    /\ \E v \in esPromptValidate(call.arg) :
         call' = [fn |-> "ESValidate", arg |-> call.arg, pos |-> "once", out |-> v]
    /\ UNCHANGED <<agentVars, handleVars, httpVars, cacheVars, rateVars>>

\* a second request with the same prompt has its identifiers validated
ApplyESValidateAgain ==
    /\ call.fn = "ESValidate" /\ call.pos = "once"
    /\ \E v \in esPromptValidate(call.arg) :
         call' = [fn |-> "ESValidate", arg |-> call.arg, pos |-> "out",
                  out |-> call.out, again |-> v]
    /\ UNCHANGED <<agentVars, handleVars, httpVars, cacheVars, rateVars>>

\* QueryAgent applies the defaults to the decoded request
ApplySetDefaults ==
    /\ call.fn = "SetDefaults" /\ call.pos = "in"
    /\ call' = [fn |-> "SetDefaults", arg |-> call.arg, pos |-> "defaulted",
                timeout |-> SetDefaults(call.arg)]
    /\ UNCHANGED <<agentVars, handleVars, httpVars, cacheVars, rateVars>>

\* Handle derives agentCtx from the timeout of the request
DeriveDeadline ==
    /\ call.fn = "SetDefaults" /\ call.pos = "defaulted"
    /\ call' = [fn |-> "SetDefaults", arg |-> call.arg, pos |-> "out",
                timeout |-> call.timeout, out |-> agentTimeout(call.timeout)]
    /\ UNCHANGED <<agentVars, handleVars, httpVars, cacheVars, rateVars>>

InitCall == call \in Calls

InitPure == InitAgent /\ InitNoRequest /\ InitCacheIdle /\ InitRateIdle /\ InitCall

NextPure ==
    \/ ApplyRoute
    \/ ApplyCheckLimits
    \/ ApplySQLValidate
    \/ ApplyExtractSQL
    \/ ApplyExtractSQLAgain
    \/ ApplyMaskRows
    \/ ApplyESValidate
    \/ ApplyESValidateAgain
    \/ ApplySetDefaults
    \/ DeriveDeadline

SpecPure == InitPure /\ [][NextPure]_vars

-----------------------------------------------------------------------------
(* Properties of the agent loop *)

Last(seq) == seq[Len(seq)]

RunReturned == pc = "done"

\* the ids of the tool-use blocks of a response content
ToolUseIds(content) ==
    {content[j].id : j \in {k \in 1..Len(content) : content[k].type = "tool_use"}}

ExecutedIds == {execLog[i].id : i \in 1..Len(execLog)}

\* toolsUsed and lastExecutedSQL as the executions so far determine them
LogNames == [i \in 1..Len(execLog) |-> execLog[i].name]

LogLastSQL ==
    LET hits == {i \in 1..Len(execLog) :
                    execLog[i].name = ExecuteTool /\ execLog[i].sql # ""}
    IN  IF hits = {} THEN ""
        ELSE execLog[CHOOSE i \in hits : \A j \in hits : j <= i].sql

\* the response of this iteration asks for tools and does not end the turn
NonTerminal(r) ==
    /\ r.stop \notin TerminalStops \cup {"none"}
    /\ ToolUseIds(r.content) # {}

\* the response of this iteration ends the run
Terminal(r) ==
    /\ r.stop # "none"
    /\ (r.stop \in TerminalStops \/ ToolUseIds(r.content) = {})

\* C1: when the response at an iteration with index >= 7 has pending tool
\* calls and a non-terminal stop reason, none of its tool calls is executed
\* or recorded in toolsUsed, exactly one further LLM call is made, that call
\* carries no tool catalog, and Run returns after it.
C1_ForcedFinalAnswer ==
    (iter >= 7 /\ NonTerminal(resp)) =>
        /\ pc \in {"final", "done"}
        /\ ToolUseIds(resp.content) \cap ExecutedIds = {}
        /\ toolsUsed = LogNames
        /\ \A i \in 1..(iter + 1) : llmCalls[i].tools
        /\ pc = "final" => Len(llmCalls) = iter + 1
        /\ pc = "done" => /\ Len(llmCalls) = iter + 2
                          /\ ~Last(llmCalls).tools
                          /\ Last(llmCalls).nmsgs = llmCalls[iter + 1].nmsgs + 2

C1_Witness ==
    /\ RunReturned
    /\ iter = 7
    /\ NonTerminal(resp)
    /\ Len(pendingToolCalls) = 2
    /\ runRet.err = "nil"

C4_TerminalReturnsAtOnce ==
    Terminal(resp) =>
        /\ RunReturned
        /\ runRet.err = "nil"
        /\ runRet.text = CollectText(resp.content)
        /\ ToolUseIds(resp.content) \cap ExecutedIds = {}
        /\ toolsUsed = LogNames
        /\ runRet.toolsUsed = LogNames
        /\ Len(messages) = Last(llmCalls).nmsgs
        /\ Len(llmCalls) = iter + 1
        /\ Last(llmCalls).tools

C4_Witness ==
    /\ RunReturned
    /\ resp.stop = "max_tokens"
    /\ Len(pendingToolCalls) = 2
    /\ iter = 2
    /\ runRet.text = << "p" >>

\* the tool-result blocks Run has built so far
ResultBlocks ==
    {toolResults[j] : j \in 1..Len(toolResults)} \cup
    UNION {{messages[m].content[j] :
                j \in {k \in 1..Len(messages[m].content) :
                           messages[m].content[k].type = "tool_result"}} :
            m \in 1..Len(messages)}

\* the assistant message of iteration t and the iteration a tool-use id is of
AssistantMsg(t) == messages[2 * t + 2]
TurnOf(id) == (id \div 10) - 1

\* the forced-answer test is reached at iteration 7 at the latest, so the
\* loop index never passes it
IterBelowForce == iter <= forceIter /\ runRet.err # MaxIterErr

\* C5: a failing tool executor or a tool name outside the tool set never makes
\* Run return an error: the failure becomes a tool-result block with
\* is_error = true carrying the call's tool-use id, the remaining tool calls
\* of the turn are still processed, and the loop goes on to the next LLM call.
C5_ToolFailuresReported ==
    /\ LET blocks == ResultBlocks IN
       \A i \in 1..Len(execLog) :
         LET e == execLog[i] IN
         /\ e.name \notin runTools => ~e.ok
         /\ NewToolResultBlock(e.id, ~e.ok) \in blocks
         /\ NewToolResultBlock(e.id, e.ok) \notin blocks
         /\ \A id \in ToolUseIds(AssistantMsg(TurnOf(e.id)).content) :
              \/ id \in ExecutedIds
              \/ /\ pc = "tools"
                 /\ iter = TurnOf(e.id)
                 /\ \E j \in tcIdx..Len(pendingToolCalls) : pendingToolCalls[j].id = id
    /\ pc = "call" => Len(llmCalls) = iter
    /\ RunReturned => Len(llmCalls) > iter
    /\ (RunReturned /\ runRet.err # "nil") => ~Last(llmCalls).ok

C5_Witness ==
    /\ RunReturned
    /\ runRet.err = "nil"
    /\ \E i \in 1..Len(execLog) : execLog[i].name = BogusTool /\ i < Len(execLog)
    /\ \E i \in 1..Len(execLog) :
         execLog[i].name = ListTool /\ ~execLog[i].ok /\ i < Len(execLog)

\* C6: Run returns a non-nil error only when an LLM call (tool-enabled or the
\* forced final one) fails, which includes every call on a cancelled or
\* expired context, or when the iteration limit is exhausted; every other
\* outcome carries a nil error.
C6_ErrorCases ==
    RunReturned =>
        /\ runRet.err \in {"nil", LLMCallErr, FinalCallErr, MaxIterErr}
        /\ runRet.err # "nil" <=> (~Last(llmCalls).ok \/ iter >= maxIter)
        /\ runRet.err = LLMCallErr <=> (~Last(llmCalls).ok /\ Last(llmCalls).tools)
        /\ runRet.err = FinalCallErr <=> (~Last(llmCalls).ok /\ ~Last(llmCalls).tools)
        /\ runRet.err = MaxIterErr => iter >= maxIter
        /\ ~Last(llmCalls).ok =>
             runRet.cause = (IF Last(llmCalls).cancelled THEN "ctx" ELSE "api")

C6_Witness ==
    /\ RunReturned
    /\ runRet.err = FinalCallErr
    /\ runRet.cause = "api"
    /\ \E i \in 1..Len(execLog) : ~execLog[i].ok

\* C7: once the request context is cancelled or past its deadline during Run,
\* the next LLM call fails and Run returns a cancellation error together with
\* the toolsUsed and lastExecutedSQL accumulated so far; the pipeline then
\* attaches no execution result and executes nothing on the backend.
C7_CancellationEndsRun ==
    /\ \A i \in 1..Len(llmCalls) : llmCalls[i].cancelled => ~llmCalls[i].ok
    /\ (pc \in {"call", "tools", "final"} /\ ctxDone) =>
          \A i \in 1..Len(llmCalls) : ~llmCalls[i].cancelled
    /\ (RunReturned /\ Last(llmCalls).cancelled) =>
          /\ runRet.err \in {LLMCallErr, FinalCallErr}
          /\ runRet.cause = "ctx"
          /\ runRet.toolsUsed = LogNames
          /\ runRet.lastSQL = LogLastSQL
          /\ execResult = "none"
          /\ bqExecuted = << >>
          /\ hpc \in {"run", "done"}
          /\ hpc = "done" => hret = [status |-> "none", err |-> "agent run"]

C7_Witness ==
    /\ hpc = "done"
    /\ runRet.cause = "ctx"
    /\ runRet.lastSQL = "Q1"
    /\ Len(runRet.toolsUsed) >= 2
    /\ hret.err = "agent run"

\* the tool calls of iteration t, and the outcome logged for a tool-use id
CallsOf(t) == CollectToolCalls(AssistantMsg(t).content)
OkOf(id) == (CHOOSE e \in {execLog[i] : i \in 1..Len(execLog)} : e.id = id).ok

\* C25: the tool calls of an iteration that is not the last run one at a time
\* in the order the LLM emitted them, each once; toolsUsed lists their names
\* in that order; the one user turn appended after them holds one tool-result
\* block per call, in order, with the id of the call and the is-error flag of
\* its outcome; an LLM call is made only with the result turn of the
\* iteration before in place, none while tool calls are pending.
C25_ToolsRunInOrder ==
    /\ \A i, j \in 1..Len(execLog) : i # j => execLog[i].id # execLog[j].id
    /\ toolsUsed = LogNames
    /\ \A i \in 1..Len(execLog) :
         LET e == execLog[i]
             t == TurnOf(e.id)
             calls == CallsOf(t)
         IN  \E j \in 1..Len(calls) :
               /\ calls[j] = [id |-> e.id, name |-> e.name, sql |-> e.sql]
               /\ j > 1 => (i > 1 /\ execLog[i - 1].id = calls[j - 1].id)
               /\ (j = 1 /\ t > 0) =>
                     (i > 1 /\ execLog[i - 1].id = Last(CallsOf(t - 1)).id)
               /\ (j = 1 /\ t = 0) => i = 1
    /\ \A m \in 1..Len(messages) :
         messages[m].role = (IF m % 2 = 1 THEN "user" ELSE "assistant")
    /\ \A t \in 0..(iter - 1) :
         LET calls == CallsOf(t)
             turn == messages[2 * t + 3].content
         IN  /\ Len(calls) > 0
             /\ Len(turn) = Len(calls)
             /\ \A j \in 1..Len(calls) :
                  /\ turn[j].type = "tool_result"
                  /\ turn[j].id = calls[j].id
                  /\ turn[j].is_error = ~OkOf(calls[j].id)
    /\ pc = "tools" =>
          /\ Len(messages) = 2 * iter + 2
          /\ pendingToolCalls = CallsOf(iter)
          /\ Len(toolResults) = tcIdx - 1
          /\ \A j \in 1..(tcIdx - 1) :
               /\ toolResults[j].id = pendingToolCalls[j].id
               /\ toolResults[j].is_error = ~OkOf(pendingToolCalls[j].id)
               /\ execLog[Len(execLog) - (tcIdx - 1) + j].id = pendingToolCalls[j].id
          /\ \A j \in tcIdx..Len(pendingToolCalls) :
               pendingToolCalls[j].id \notin ExecutedIds
          /\ Len(llmCalls) = iter + 1
    /\ \A i \in 1..Len(llmCalls) :
         llmCalls[i].tools => llmCalls[i].nmsgs = 2 * i - 1

C25_Witness ==
    /\ pc = "call"
    /\ iter = 2
    /\ Len(messages[3].content) = 2
    /\ ~messages[3].content[1].is_error
    /\ messages[3].content[2].is_error
    /\ toolsUsed = << ExecuteTool, BogusTool, ListTool >>

\* Run has returned from the forced final call
ForcedReturn ==
    /\ RunReturned
    /\ llmCalls # << >>
    /\ ~Last(llmCalls).tools
    /\ Last(llmCalls).ok

\* C26 as stated: after a forced termination the text Run returns is the
\* concatenated text of the final, tool-less LLM call.
C26_ForcedTextIsFinalText ==
    ForcedReturn => runRet.text = CollectText(finalResp) /\ runRet.err = "nil"

\* C26 amended: the text Run returns is the text of the response that was
\* cut short, followed by the concatenated text of the final call.
C26_ForcedTextIsBothTexts ==
    ForcedReturn =>
        /\ runRet.err = "nil"
        /\ runRet.text = CollectText(resp.content) \o CollectText(finalResp)
        /\ messages[Len(messages) - 1] = Msg("assistant", resp.content)

C26_Witness ==
    /\ ForcedReturn
    /\ CollectText(resp.content) = << "Q1" >>
    /\ CollectText(finalResp) = << "p" >>
    /\ runRet.text = << "Q1", "p" >>

\* the conversation of the i-th LLM call: Run only ever appends to messages
Conversation(i) == SubSeq(messages, 1, llmCalls[i].nmsgs)

\* turn u answers the tool-use blocks of assistant content a: one tool-result
\* block for each tool-use id, and nothing else
Answers(u, a) ==
    LET calls == CollectToolCalls(a)
    IN  /\ u.role = "user"
        /\ Len(u.content) = Len(calls)
        /\ \A j \in 1..Len(calls) :
             /\ u.content[j].type = "tool_result"
             /\ u.content[j].id = calls[j].id

\* C37 as stated: in every conversation Run sends to the LLM the turns
\* alternate between user and assistant, the first being the user prompt,
\* and every assistant message that holds tool-use blocks is immediately
\* followed by a user turn holding one tool-result block for each of their
\* ids.
C37_ToolUseAnswered ==
    \A i \in 1..Len(llmCalls) :
       LET conv == Conversation(i)
       IN  /\ Len(conv) >= 1
           /\ \A m \in 1..Len(conv) :
                conv[m].role = (IF m % 2 = 1 THEN "user" ELSE "assistant")
           /\ \A m \in 1..Len(conv) :
                (conv[m].role = "assistant" /\ CollectToolCalls(conv[m].content) # << >>)
                   => /\ m < Len(conv)
                      /\ Answers(conv[m + 1], conv[m].content)

\* the user turn of the forced final answer
ForcedTurn == Msg("user", << T(ForceText) >>)

\* C37, amended: in every conversation Run sends to the LLM the turns
\* alternate between user and assistant, the first being the user prompt,
\* and every assistant message that holds tool-use blocks is immediately
\* followed by a user turn holding one tool-result block for each of their
\* ids, except the last assistant message of the conversation of the forced
\* final call, which is followed by the text turn asking for the answer.
C37_ToolUseAnsweredUnlessForced ==
    \A i \in 1..Len(llmCalls) :
       LET conv == Conversation(i)
           forced == ~llmCalls[i].tools
       IN  /\ Len(conv) >= 1
           /\ \A m \in 1..Len(conv) :
                conv[m].role = (IF m % 2 = 1 THEN "user" ELSE "assistant")
           /\ \A m \in 1..Len(conv) :
                (conv[m].role = "assistant" /\ CollectToolCalls(conv[m].content) # << >>)
                   => /\ m < Len(conv)
                      /\ IF forced /\ m = Len(conv) - 1
                         THEN conv[m + 1] = ForcedTurn
                         ELSE Answers(conv[m + 1], conv[m].content)

\* the forced final call was made: its conversation holds answered tool-use
\* messages, one of them with two tool calls, and ends with the unanswered one
C37_Witness ==
    /\ pc = "done"
    /\ \E i \in 1..Len(llmCalls) :
         /\ ~llmCalls[i].tools
         /\ llmCalls[i].nmsgs = Len(messages)
         /\ messages[Len(messages)] = ForcedTurn
         /\ CollectToolCalls(messages[Len(messages) - 1].content) # << >>
         /\ \E m \in 1..(Len(messages) - 2) :
              /\ Len(CollectToolCalls(messages[m].content)) = 2
              /\ Answers(messages[m + 1], messages[m].content)

\* C35: lastExecutedSQL is at every moment, and in what Run returns, the sql
\* input of the last execute_bigquery_sql call the loop invoked with a
\* non-empty sql, whether that call failed or not; it is empty when there was
\* none; a call of another tool leaves it as it was.
C35_LastExecutedSQL ==
    /\ lastExecutedSQL = LogLastSQL
    /\ RunReturned => runRet.lastSQL = LogLastSQL
    /\ (\A i \in 1..Len(execLog) : execLog[i].name # ExecuteTool \/ execLog[i].sql = "")
          => lastExecutedSQL = ""

\* Run has returned the SQL of a failed execute_bigquery_sql call that a call
\* of another tool with an sql input followed
C35_Witness ==
    /\ RunReturned
    /\ runRet.lastSQL = "Q2"
    /\ \E i \in 1..Len(execLog) :
         /\ execLog[i].name = ExecuteTool /\ execLog[i].sql = "Q2" /\ ~execLog[i].ok
         /\ i + 1 <= Len(execLog)
         /\ execLog[i + 1].name = BogusTool /\ execLog[i + 1].sql = "Q1"
         /\ \A j \in (i + 2)..Len(execLog) : execLog[j].name # ExecuteTool

-----------------------------------------------------------------------------
(* Properties of the pipelines and of QueryAgent *)

\* the order of the stages of a pipeline
StageOrder(h) ==
    IF h = "es"
    THEN << "pii", "prompt", "ident", "agent", "audit" >>
    ELSE << "pii", "prompt", "schema", "agent", "extract", "validate", "execute",
            "cost", "mask", "audit" >>

Pos(order, st) == CHOOSE i \in 1..Len(order) : order[i] = st
Ran(st) == \E i \in 1..Len(stages) : stages[i] = st
Dispatched == handler \in {"bq", "es"}
AgentIdle == llmCalls = << >> /\ execLog = << >>
NothingMore == ~ENABLED (LLMCall \/ ExecTool \/ FinalCall \/ HandleAfterRun \/ HandleExec)

C13_AuditOncePerRequest ==
    (auditEnabled /\ Dispatched /\ hpc = "done") =>
        audits = 1 /\ Last(stages) = "audit"

\* C14: the text given to SQLValidator, the text the execute step gives to the
\* backend and the generated_sql of the response are one string, the one the
\* extraction (with its fallback) produced from what Run returned.
C14_SameSQLText ==
    /\ Len(sqlValidated) <= 1 /\ Len(bqExecuted) <= 1
    /\ \A i \in 1..Len(sqlValidated) : sqlValidated[i] = generatedSQL
    /\ \A i \in 1..Len(bqExecuted) : bqExecuted[i] = generatedSQL
    /\ bqExecuted # << >> => bqExecuted = sqlValidated
    /\ response.GeneratedSQL # "nil" => response.GeneratedSQL = generatedSQL
    /\ Ran("extract") =>
          generatedSQL = (IF extractSQL(runRet.text) # "" THEN extractSQL(runRet.text)
                          ELSE runRet.lastSQL)

C14_Witness ==
    /\ hpc = "done"
    /\ sqlValidated = << "Q1" >>
    /\ bqExecuted = << "Q1" >>
    /\ response.GeneratedSQL = "Q1"
    /\ runRet.lastSQL = "Q2"

\* C15 as stated: a SQL text runs on the warehouse, by the execute step or by
\* the execute_bigquery_sql tool of the agent loop, only after SQLValidator
\* has been given that text and has accepted it.
C15_NoUnvalidatedExecution ==
    /\ \A i \in 1..Len(bqExecuted) :
         /\ sqlValidate(bqExecuted[i]) = ""
         /\ \E k \in 1..Len(sqlValidated) : sqlValidated[k] = bqExecuted[i]
    /\ \A i \in 1..Len(execLog) :
         (execLog[i].name = ExecuteTool /\ execLog[i].ok) =>
             /\ sqlValidate(execLog[i].sql) = ""
             /\ \E k \in 1..Len(sqlValidated) : sqlValidated[k] = execLog[i].sql

C17_CostExceeded ==
    (result.err = "nil" /\ result.bytes > maxBytes) =>
        /\ hpc = "done"
        /\ httpStatus = 200 /\ written = "response"
        /\ hret = [status |-> "success", err |-> "nil"]
        /\ response.Status = "success"
        /\ response.GeneratedSQL = generatedSQL /\ generatedSQL # ""
        /\ metadata.cost_tracking = "blocked"
        /\ metadata.data_masking = "n/a"
        /\ execResult = "none" /\ response.rows = << >>
        /\ bqExecuted = << generatedSQL >>
        /\ NothingMore

C17_Witness ==
    /\ hpc = "done"
    /\ result = [err |-> "nil", bytes |-> maxBytes + 1, rows |-> << >>]
    /\ httpStatus = 200
    /\ response.GeneratedSQL = "Q1"

\* the guards of a pipeline in their order, and the mark of a passed guard
Guards(h) ==
    IF h = "es" THEN << "pii_check", "prompt_validation", "es_validation" >>
    ELSE << "pii_check", "prompt_validation", "sql_validation" >>
Passed(g) == IF g = "es_validation" THEN "time_range" ELSE "passed"

\* C18: when a guard rejects the input the request is answered 400 with a
\* response of status error whose metadata marks that guard, and no other, as
\* blocked and the guards before it as passed; no LLM call and no backend
\* execution follows (none has happened at all for the guards before the agent
\* loop).  A guard that has to reject does: the prompt "find all errors" sent
\* with the search hint is answered 400 with es_validation blocked.
C18_GuardBlocked ==
    LET gs == Guards(handler) IN
    /\ \A k \in 1..Len(gs) :
         metadata[gs[k]] = "blocked" =>
            /\ hpc = "done"
            /\ httpStatus = 400 /\ written = "response"
            /\ hret.status = "error" /\ hret.err \notin {"nil", "none"}
            /\ response.Status = "error"
            /\ \A j \in 1..(k - 1) : metadata[gs[j]] = Passed(gs[j])
            /\ \A j \in (k + 1)..Len(gs) : metadata[gs[j]] \in {"", "n/a"}
            /\ metadata.cost_tracking \in {"", "n/a"}
            /\ metadata.routing_confidence = routingConf
            /\ gs[k] # "sql_validation" => AgentIdle
            /\ bqExecuted = << >>
            /\ NothingMore
    /\ (Dispatched /\ hpc = "done") =>
          /\ (\E i \in 1..Len(req.prompt) : req.prompt[i] \in piiKeywords) =>
                metadata.pii_check = "blocked"
          /\ req.prompt = << "hello" >> => metadata.prompt_validation = "blocked"
          /\ (req.prompt = << "find", "all", "errors" >> /\ handler = "es") =>
                httpStatus = 400 /\ metadata.es_validation = "blocked"
          /\ (sqlValidated # << >> /\ Last(sqlValidated) = "Q2") =>
                metadata.sql_validation = "blocked"

C18_Witness ==
    /\ hpc = "done"
    /\ req.prompt = << "find", "all", "errors" >>
    /\ req.dataSource = DataSourceElasticsearch
    /\ httpStatus = 400
    /\ metadata.es_validation = "blocked"
    /\ metadata.pii_check = "passed" /\ metadata.prompt_validation = "passed"

\* C19 as stated: when the backend fails or times out in the execute step the
\* request is answered 500 and Handle returns an error.
C19_BackendFailureIs500 ==
    (hpc = "done" /\ result.err = "failed") =>
        httpStatus = 500 /\ hret.err # "nil"

\* the request is refused before a data source is chosen
Refused == req.body # "ok" \/ req.prompt = << >>

\* C20 as stated: 200 exactly when the pipeline returns no error, 400 exactly
\* when it returns an error together with a response, 500 when it returns an
\* error without one, 503 with no stage run when the pipeline of the selected
\* source is not configured; a data_source hint is taken as the source without
\* the router, with confidence 1.0.
C20_StatusMapping ==
    hpc = "done" =>
        /\ httpStatus = 200 <=> hret.err = "nil"
        /\ httpStatus = 400 <=> (hret.err \notin {"nil", "none"} /\ hret.status # "none")
        /\ (hret.err \notin {"nil", "none"} /\ hret.status = "none") => httpStatus = 500
        /\ handler = "nil" => httpStatus = 503 /\ stages = << >> /\ AgentIdle
        /\ (req.dataSource # "" /\ ~Refused) =>
              source = req.dataSource /\ routingConf = 100

\* C20 amended: the same, where a 400 is also the answer to a request whose
\* body does not decode or whose prompt is empty, given before a data source
\* is chosen and without any stage run.
C20_StatusMappingOrRefused ==
    hpc = "done" =>
        /\ httpStatus \in {200, 400, 500, 503}
        /\ httpStatus = 200 <=> hret.err = "nil"
        /\ httpStatus = 400 <=>
              \/ hret.err \notin {"nil", "none"} /\ hret.status # "none"
              \/ Refused
        /\ httpStatus = 500 <=> (hret.err \notin {"nil", "none"} /\ hret.status = "none")
        /\ httpStatus = 503 <=> handler = "nil"
        /\ (handler = "nil" \/ Refused) =>
              /\ stages = << >> /\ AgentIdle /\ written = "error"
              /\ hret.err = "none"
        /\ Refused => handler = "unset" /\ source = ""
        /\ ~Refused =>
              /\ source = (IF req.dataSource # "" THEN req.dataSource
                           ELSE Route(req.prompt).Source)
              /\ routingConf = (IF req.dataSource # "" THEN 100
                                ELSE Route(req.prompt).Confidence)
              /\ handler \in {"nil", IF source = DataSourceElasticsearch THEN "es" ELSE "bq"}
        /\ written = "response" => metadata.routing_confidence = routingConf

C20_Witness ==
    /\ hpc = "done"
    /\ req.dataSource = "other"
    /\ handler = "bq"
    /\ httpStatus = 400
    /\ written = "response"
    /\ metadata.routing_confidence = 100

\* C21: the metadata of every success response holds pii_check,
\* prompt_validation, tools_used (the list Run returned), routing_confidence
\* and routing_reasoning (those QueryAgent chose), and in the warehouse
\* pipeline also sql_validation, cost_tracking and data_masking, whichever
\* path led to the success.
C21_SuccessMetadata ==
    (hpc = "done" /\ response.Status = "success") =>
        /\ httpStatus = 200 /\ written = "response"
        /\ metadata.pii_check = "passed"
        /\ metadata.prompt_validation = "passed"
        /\ metadata.tools_used = << runRet.toolsUsed >>
        /\ metadata.routing_confidence = routingConf /\ routingConf >= 0
        /\ metadata.routing_reasoning = routingReason /\ routingReason # ""
        /\ handler = "es" => metadata.es_validation # ""
        /\ handler = "bq" =>
              /\ metadata.sql_validation \in {"n/a", "passed"}
              /\ metadata.cost_tracking \in {"n/a", "ok", "blocked"}
              /\ metadata.data_masking \in {"n/a", "applied"}

\* a success without SQL and without any tool used
C21_Witness ==
    /\ hpc = "done"
    /\ response.Status = "success"
    /\ handler = "bq"
    /\ generatedSQL = ""
    /\ metadata.tools_used = << << >> >>
    /\ metadata.routing_reasoning = ReasonBQ

\* C24: the generated SQL is the text extracted from Run's output whenever
\* that is not empty; the SQL of the last execute_bigquery_sql call stands in
\* only when the extraction is empty; the generated SQL is empty only when
\* both are.
C24_GeneratedSQLSource ==
    Ran("extract") =>
        LET extracted == extractSQL(runRet.text) IN
        /\ runRet.lastSQL = LogLastSQL
        /\ extracted # "" => generatedSQL = extracted
        /\ generatedSQL # extracted => (extracted = "" /\ generatedSQL = runRet.lastSQL)
        /\ generatedSQL = "" <=> (extracted = "" /\ runRet.lastSQL = "")

\* the fallback taken: no SQL in the output, one run by a tool
C24_Witness ==
    /\ Ran("extract")
    /\ extractSQL(runRet.text) = ""
    /\ runRet.lastSQL = "Q2"
    /\ generatedSQL = "Q2"

\* C27: when the request is a dry run or no SQL was obtained, Handle neither
\* validates nor executes anything: it answers success with the generated SQL,
\* without an execution result, and with sql_validation, cost_tracking and
\* data_masking all "n/a".
C27_DryRunOrNoSQL ==
    (Ran("extract") /\ (dryRun \/ generatedSQL = "")) =>
        /\ sqlValidated = << >>
        /\ bqExecuted = << >>
        /\ ~Ran("validate") /\ ~Ran("execute")
        /\ hpc = "done"
        /\ hret = [status |-> "success", err |-> "nil"]
        /\ httpStatus = 200 /\ written = "response"
        /\ response = [Status |-> "success", GeneratedSQL |-> generatedSQL,
                       rows |-> << >>]
        /\ execResult = "none"
        /\ result = NoResult
        /\ metadata.sql_validation = "n/a"
        /\ metadata.cost_tracking = "n/a"
        /\ metadata.data_masking = "n/a"

\* a dry run whose SQL the validator would have blocked
C27_Witness ==
    /\ Ran("extract")
    /\ dryRun
    /\ generatedSQL # ""
    /\ sqlValidate(generatedSQL) # ""
    /\ response.Status = "success"
    /\ response.GeneratedSQL = generatedSQL

-----------------------------------------------------------------------------
(* Properties of the schema-prompt cache *)

Listing(d) == {c \in Callers : cpc[c] = "listing" /\ cds[c] = d}

\* C8: under any interleaving of concurrent buildSystemPrompt calls at most
\* one ListTables call for a given dataset is in flight at any time; listings
\* for different datasets may overlap.
C8_OneListingInFlight ==
    \A d \in Datasets : Cardinality(Listing(d)) <= 1

C8_Witness ==
    \E c1, c2, c3 \in Callers :
        /\ cpc[c1] = "listing" /\ cds[c1] = "d1"
        /\ cpc[c2] = "wait" /\ cds[c2] = "d1"
        /\ cpc[c3] = "listing" /\ cds[c3] = "d2"

C10_FailedListingNotCached ==
    \A c \in Callers :
        /\ (cpc[c] = "fn_done" /\ fetched[c].failed) =>
              /\ fetched[c].val = baseSystemPrompt
              /\ store[cds[c]] = fetched[c].storeBefore
        /\ (cpc[c] = "woken" /\ fetched[c].failed) => fetched[c].val = baseSystemPrompt
        /\ (cpc[c] = "returned" /\ fetched[c].failed) => cret[c] = baseSystemPrompt
        /\ (cpc[c] = "returned" /\ fetched[c].needIdx > 0) =>
              listings[cds[c]].count > fetched[c].needIdx

C10_Witness ==
    \E c1, c2, c3 \in Callers :
        /\ cds[c1] = "d1" /\ cds[c2] = "d1" /\ cds[c3] = "d1"
        /\ cpc[c1] = "returned" /\ fetched[c1].failed /\ ~fetched[c1].shared
        /\ cpc[c2] = "returned" /\ fetched[c2].failed /\ fetched[c2].shared
        /\ cpc[c3] = "returned" /\ fetched[c3].needIdx = 1 /\ fetched[c3].listed
        /\ ~fetched[c3].shared /\ ~fetched[c3].failed
        /\ cret[c3] = BuildPrompt("d1", Tables, {})
        /\ store["d1"].prompt = cret[c3]

\* the entry of dataset d is present and its expiry time has not passed
Live(d) == store[d] # NoEntry /\ now <= store[d].expiresAt

\* C11: a lookup (the fast path or the second look inside the coalesced
\* fetch) returns an entry only while its expiry time has not passed; on an
\* expired entry buildSystemPrompt goes on exactly as on a missing one, to the
\* coalesced fetch and the listing; an entry is written only over a missing or
\* expired one, and the entry written expires schemaCacheTTL after its insertion.
C11_ExpiredEntryRefetched ==
    [][ /\ \A c \in Callers :
             /\ (cpc[c] = "get" /\ cpc'[c] # "get") =>
                   IF Live(cds[c])
                   THEN cpc'[c] = "returned" /\ cret'[c] = store[cds[c]].prompt
                   ELSE cpc'[c] = "do" /\ cret'[c] = cret[c]
             /\ (cpc[c] = "fn_get" /\ cpc'[c] # "fn_get") =>
                   IF Live(cds[c])
                   THEN cpc'[c] = "fn_done" /\ fetched'[c].val = store[cds[c]].prompt
                   ELSE cpc'[c] = "listing"
        /\ \A d \in Datasets :
             store'[d] # store[d] =>
                 /\ ~Live(d)
                 /\ store'[d].expiresAt = now + schemaCacheTTL
                 /\ \E c \in Callers : cpc[c] = "listing" /\ cds[c] = d
      ]_vars

C11_Witness ==
    \E c \in Callers :
        /\ cpc[c] = "returned"
        /\ fetched[c].listed /\ ~fetched[c].shared /\ ~fetched[c].failed
        /\ fetched[c].storeBefore # NoEntry
        /\ fetched[c].storeBefore.expiresAt = schemaCacheTTL
        /\ store[cds[c]].expiresAt = now + schemaCacheTTL
        /\ cret[c] = store[cds[c]].prompt

\* the call of c was made with an empty dataset id or without an adapter
Skipped(c) == cpc[c] # "idle" /\ (cds[c] = "" \/ ~bqAvail)

\* C28: a buildSystemPrompt call with an empty dataset id or without a
\* warehouse adapter returns the base prompt unchanged at its first step: it
\* never looks into the cache, joins no singleflight call, lists no tables,
\* and leaves the cache, the singleflight group and the backend as they were.
C28_BasePromptVerbatim ==
    /\ [](\A c \in Callers : Skipped(c) =>
              /\ cpc[c] = "returned"
              /\ cret[c] = baseSystemPrompt
              /\ fetched[c] = NoFetch
              /\ \A d \in Datasets : sfCalls[d] # c)
    /\ [](~bqAvail => /\ \A d \in Datasets : store[d] = NoEntry /\ sfCalls[d] = 0
                      /\ \A d \in Datasets : listings[d].count = 0)
    /\ [][\A c \in Callers :
            (cpc[c] = "idle" /\ Skipped(c)') =>
                UNCHANGED <<store, sfCalls, listings, now>>]_vars

\* with an adapter and a filled cache, a call without a dataset id has
\* returned the base prompt
C28_Witness ==
    /\ bqAvail
    /\ \E d \in Datasets : store[d] # NoEntry
    /\ \E c \in Callers :
         /\ cpc[c] = "returned" /\ cds[c] = ""
         /\ cret[c] = baseSystemPrompt
         /\ \E c2 \in Callers : c2 < c /\ cret[c2] # baseSystemPrompt

\* the prompt of dataset d that holds a section for each table outside bad,
\* in the order of the listing
PromptWithout(d, bad) ==
    << "base", d >> \o SelectSeq(Tables, LAMBDA t : t \notin bad) \o << "hint" >>

TableSet == {Tables[j] : j \in 1..Len(Tables)}

-----------------------------------------------------------------------------
(* Properties of the rate limiter *)

\* the admissions of key k before the i-th one and less than windowDur older
Preceding(k, i) ==
    {j \in 1..(i - 1) : admitted[k][j] > admitted[k][i] - windowDur}

\* the admissions of key k within windowDur before time t
Within(k, t) == {j \in 1..Len(admitted[k]) : admitted[k][j] > t - windowDur}

\* C22 as stated: a request of a key is admitted only when fewer than limit
\* requests of the key were admitted within the minute before it, whatever
\* the interleaving of the requests; a request is rejected only when limit
\* requests of its own key were admitted within the minute, with 429 and
\* Retry-After 60, and is not counted.
C22_AtMostLimitPerMinute ==
    /\ \A k \in RateKeys : \A i \in 1..Len(admitted[k]) :
         Cardinality(Preceding(k, i)) < limit
    /\ \A r \in Reqs :
         rpc[r] = "done" =>
            /\ rresp[r].status \in {0, 429}
            /\ rresp[r].status = 429 =>
                  /\ rresp[r].retryAfter = 60
                  /\ Cardinality(Within(rkey[r], rresp[r].at)) >= limit
    /\ \A k \in RateKeys :
         Len(admitted[k]) =
            Cardinality({r \in Reqs : rpc[r] = "done" /\ rkey[r] = k
                                      /\ rresp[r].status = 0})

\* the entries of sequence q, as a set
Entries(q) == {q[i] : i \in 1..Len(q)}

\* C36 as stated: whatever the interleaving of the sweeper with the requests
\* in progress, the window a request has obtained and has not yet recorded
\* into is still the window of its key in the map, every admission of a key
\* younger than a minute is an entry of the window the map holds for the
\* key, and an admission of a key together with the admissions of the key
\* within the minute before it are at most limit.
C36_EvictionKeepsAdmissions ==
    /\ \A r \in Reqs : rpc[r] = "allow" => windows[rkey[r]] = rsw[r]
    /\ \A k \in RateKeys : \A i \in 1..Len(admitted[k]) :
         admitted[k][i] > clock - windowDur =>
            /\ windows[k] # 0
            /\ admitted[k][i] \in Entries(requests[windows[k]])
    /\ \A k \in RateKeys : \A i \in 1..Len(admitted[k]) :
         Cardinality(Preceding(k, i)) + 1 <= limit

-----------------------------------------------------------------------------
(* Properties of Route, CheckLimits and SetDefaults *)

RECURSIVE SeqsOf(_)
\* the orders in which the keywords of the set S can be examined
SeqsOf(S) ==
    IF S = {} THEN {<< >>}
    ELSE UNION {{<< x >> \o rest : rest \in SeqsOf(S \ {x})} : x \in S}

Elems(seq) == {seq[i] : i \in 1..Len(seq)}

\* the keywords of the set S a prompt contains
Hits(S, prompt) == Cardinality({kw \in S : Contains(prompt, kw)})

\* what C23 and its amended form share: the search backend is selected only
\* on a strictly higher search score, the confidence is the selected score
\* over the sum of both (in hundredths, rounded down), a tie goes to the
\* warehouse with confidence 0.5, and no order of the keywords changes the
\* result
RouteCommon(prompt, r) ==
    LET es == Hits(Elems(elasticsearchKeywords), prompt)
        bq == Hits(Elems(bigqueryKeywords), prompt)
        sel == IF r.Source = DataSourceElasticsearch THEN es ELSE bq
    IN  /\ r.Source \in {DataSourceElasticsearch, DataSourceBigQuery}
        /\ r.Source = DataSourceElasticsearch <=> es > bq
        /\ es + bq > 0 =>
              /\ r.Confidence * (es + bq) <= 100 * sel
              /\ 100 * sel < (r.Confidence + 1) * (es + bq)
        /\ es = bq => r.Source = DataSourceBigQuery /\ r.Confidence = 50
        /\ \A e \in SeqsOf(Elems(elasticsearchKeywords)) :
             \A b \in SeqsOf(Elems(bigqueryKeywords)) :
                RouteWith(e, b, prompt) = r

\* C23 as stated: the above, and every tie, of matches as of no match, carries
\* the "no strong keywords" reasoning.
C23_RouteTieReasoning ==
    (call.fn = "Route" /\ call.pos = "out") =>
        /\ RouteCommon(call.arg, call.out)
        /\ Hits(Elems(elasticsearchKeywords), call.arg)
              = Hits(Elems(bigqueryKeywords), call.arg)
           => call.out.Reasoning = ReasonDefault

\* C23 amended: the above, and the "no strong keywords" reasoning is given
\* exactly when no keyword matches; a tie of matching keywords carries the
\* reasoning of the warehouse keywords.
C23_RouteZeroMatchReasoning ==
    (call.fn = "Route" /\ call.pos = "out") =>
        LET es == Hits(Elems(elasticsearchKeywords), call.arg)
            bq == Hits(Elems(bigqueryKeywords), call.arg)
        IN  /\ RouteCommon(call.arg, call.out)
            /\ call.out.Reasoning = ReasonDefault <=> es + bq = 0
            /\ (es = bq /\ es > 0) => call.out.Reasoning = ReasonBQ
            /\ es > bq => call.out.Reasoning = ReasonES

C23_Witness ==
    /\ call.fn = "Route" /\ call.pos = "out"
    /\ call.arg = << "exception", "table" >>
    /\ call.out.Source = DataSourceBigQuery
    /\ call.out.Confidence = 50
    /\ call.out.ESScore = 1 /\ call.out.BQScore = 1

\* CheckLimits has returned on the byte count call.arg
CheckedLimits == call.fn = "CheckLimits" /\ call.pos = "out"

\* v is amount bytes in hundredths of a GB, rounded
NamesGB(v, amount) ==
    /\ v * bytesPerGB - amount * 100 <= bytesPerGB \div 2
    /\ amount * 100 - v * bytesPerGB <= bytesPerGB \div 2

\* C29: CheckLimits(b) reports ok with an empty message exactly when b is at
\* most maxBytes (the limit itself passes); otherwise it reports not ok with
\* a message that is not empty and names the processed amount and the limit.
C29_CheckLimitsBoundary ==
    CheckedLimits =>
        /\ call.out.ok <=> call.arg <= maxBytes
        /\ call.out.ok => call.out.msg = NoCostErr /\ call.out.msg.text = ""
        /\ ~call.out.ok =>
              /\ call.out.msg.text # ""
              /\ NamesGB(call.out.msg.processed, call.arg)
              /\ NamesGB(call.out.msg.limit, maxBytes)

\* the first byte count over the limit is refused
C29_Witness ==
    /\ CheckedLimits
    /\ call.arg = maxBytes + 1
    /\ ~call.out.ok
    /\ call.out.msg.text = "Query cost limit exceeded"

\* SetDefaults has run on the timeout call.arg
Defaulted == call.fn = "SetDefaults" /\ call.pos \in {"defaulted", "out"}

\* C30: after SetDefaults the timeout lies in 10..600: 0 has become 300,
\* every other value under 10, the negative ones too, has become 10, every
\* value over 600 has become 600, a value in the range is unchanged; the
\* deadline of the agent run is this timeout.
C30_TimeoutClamped ==
    Defaulted =>
        /\ call.timeout \in 10..600
        /\ call.arg = 0 => call.timeout = 300
        /\ (call.arg < 10 /\ call.arg # 0) => call.timeout = 10
        /\ call.arg > 600 => call.timeout = 600
        /\ call.arg \in 10..600 => call.timeout = call.arg
        /\ call.pos = "out" => call.out = call.timeout

\* a negative timeout was raised to 10 and the deadline taken from it
C30_Witness ==
    /\ Defaulted
    /\ call.pos = "out"
    /\ call.arg < 0
    /\ call.timeout = 10
    /\ call.out = 10

\* SQLValidator.Validate has returned on the text call.arg
SQLChecked == call.fn = "SQLValidate" /\ call.pos = "out"

\* the tokens of an SQL text that are not white space, in upper case
WordsOf(sql) == ToUpper(SelectSeq(sql, LAMBDA t : ~IsSpace(t)))

Follows(w, a, b) == \E i \in 1..(Len(w) - 1) : w[i] = a /\ w[i + 1] = b

\* C31: Validate rejects every text that, trimmed and in upper case, does not
\* begin with SELECT or WITH, the empty text too; it rejects a text in which
\* UNION is followed by SELECT; it accepts a text that begins with SELECT or
\* WITH, holds UNION ALL SELECT, and holds neither UNION SELECT nor a second
\* statement.
C31_SQLValidatorVerdicts ==
    SQLChecked =>
        LET w == WordsOf(call.arg) IN
        /\ (w = << >> \/ w[1] \notin {"SELECT", "SELECTED", "WITH"}) => call.out # ""
        /\ Follows(w, "UNION", "SELECT") => call.out # ""
        /\ ( /\ w # << >>
             /\ w[1] \in {"SELECT", "WITH"}
             /\ \E i \in 1..(Len(w) - 2) :
                  w[i] = "UNION" /\ w[i + 1] = "ALL" /\ w[i + 2] = "SELECT"
             /\ ~Follows(w, "UNION", "SELECT")
             /\ \A i \in 1..Len(w) : w[i] # ";" ) => call.out = ""

\* a lower-case select with UNION ALL SELECT was accepted
C31_Witness ==
    /\ SQLChecked
    /\ call.arg = << " ", "select", " ", "x", " ", "UNION", " ", "ALL", " ", "SELECT" >>
    /\ call.out = ""

\* ESPromptValidator.Validate has returned on the prompt call.arg
ESChecked == call.fn = "ESValidate" /\ call.pos \in {"once", "out"}

\* C32: Validate rejects every prompt that matches a vague pattern, also one
\* that carries an identifier, and names no identifier class then; it rejects
\* every prompt that matches no identifier pattern.
C32_VagueBeforeIdentifier ==
    ESChecked =>
        /\ vaguePatterns(call.arg) =>
              ~call.out.valid /\ call.out.identType = "" /\ call.out.msg # ""
        /\ identifierPatterns(call.arg) = {} => ~call.out.valid /\ call.out.msg # ""
        /\ call.out.valid => call.out.identType \in identifierPatterns(call.arg)

\* a vague prompt that carries a time range was rejected
C32_Witness ==
    /\ ESChecked
    /\ call.arg = << "all", "errors", "today" >>
    /\ identifierPatterns(call.arg) = {"time_range"}
    /\ ~call.out.valid
    /\ call.out.msg = "prompt is too vague"

\* C39: two calls of Validate on the same prompt return the same identifier
\* class, so that two identical requests get the same es_validation.
C39_SameClassOnRepeat ==
    (call.fn = "ESValidate" /\ call.pos = "out") => call.again = call.out

\* MaskRows has returned on the rows call.arg
RowsMasked == call.fn = "MaskRows" /\ call.pos = "out"

Cells == {<<i, col>> : i \in 1..Len(call.arg), col \in MaskColumns \cup {"note"}}

\* the cells of the rows given to MaskRows
CellsIn == {c \in Cells : c[2] \in DOMAIN call.arg[c[1]]}

FourStars == << "*", "*", "*", "*" >>
AllDigits(v) == \A k \in 1..Len(v) : v[k] \in Digits

\* v has the form of the mask of the class of column col
MaskForm(col, v) ==
    IF emailRe(col)
    THEN \/ v = Stars
         \/ \E n \in 0..2 :
              /\ Len(v) >= n + 8
              /\ \A k \in 1..n : v[k] # "@"
              /\ SubSeq(v, n + 1, n + 8) = Stars \o << "@" >> \o Stars \o << "." >>
              /\ \A k \in (n + 9)..Len(v) : v[k] \notin {"@", "."}
    ELSE IF phoneRe(col)
    THEN /\ Len(v) = 12
         /\ SubSeq(v, 1, 8) = Stars \o << "-" >> \o Stars \o << "-" >>
         /\ SubSeq(v, 9, 12) = FourStars \/ AllDigits(SubSeq(v, 9, 12))
    ELSE IF ssnRe(col)
    THEN v = Stars \o << "-", "*", "*", "-" >> \o FourStars
    ELSE IF creditCardRe(col)
    THEN /\ Len(v) = 19
         /\ SubSeq(v, 1, 15) = FourStars \o << "-" >> \o FourStars \o << "-" >>
                                \o FourStars \o << "-" >>
         /\ SubSeq(v, 16, 19) = FourStars \/ AllDigits(SubSeq(v, 16, 19))
    ELSE v = Stars

\* C33 as stated: in every row the value of a sensitive column is replaced by
\* a value that differs from it, and the value of every other column is kept.
C33_MaskedValueDiffers ==
    RowsMasked =>
        /\ Len(call.out) = Len(call.arg)
        /\ \A c \in CellsIn :
             IF isSensitive(c[2])
             THEN call.out[c[1]][c[2]] # call.arg[c[1]][c[2]]
             ELSE call.out[c[1]][c[2]] = call.arg[c[1]][c[2]]

\* C33 amended: the value of a sensitive column is replaced by a value of the
\* mask form of its class, which differs from the input value unless the
\* input value already has that form; the value of every other column is
\* kept.
C33_MaskedValueDiffersUnlessMask ==
    RowsMasked =>
        /\ Len(call.out) = Len(call.arg)
        /\ \A i \in 1..Len(call.arg) : DOMAIN call.out[i] = DOMAIN call.arg[i]
        /\ \A c \in CellsIn :
             LET in == call.arg[c[1]][c[2]]
                 out == call.out[c[1]][c[2]]
             IN  IF isSensitive(c[2])
                 THEN /\ MaskForm(c[2], out)
                      /\ ~MaskForm(c[2], in) => out # in
                 ELSE out = in

\* an api_key that reads *** came back as it was, next to a masked email
C33_Witness ==
    /\ RowsMasked
    /\ Len(call.arg) = 2
    /\ call.arg[1] = [email |-> << "j", "d", "o", "e", "@", "x", ".", "i", "o" >>,
                      note |-> Stars]
    /\ call.out[1].email # call.arg[1].email
    /\ call.out[1].note = Stars
    /\ call.out[2].api_key = call.arg[2].api_key

\* extractSQL has been applied to the text call.arg and to its own result
ExtractedTwice == call.fn = "extractSQL" /\ call.pos = "out"

PlainSelect(sql) ==
    /\ sql # << >>
    /\ UpperOf(sql[1]) = "SELECT"
    /\ ~IsSpace(sql[Len(sql)]) /\ sql[Len(sql)] # ";"
    /\ \A k \in 1..Len(sql) : sql[k] \notin Fences
    /\ \E k \in 4..(Len(sql) - 2) :
         UpperOf(sql[k]) = "FROM" /\ sql[k - 1] = " " /\ sql[k + 1] = " "
    /\ \A k \in 1..Len(sql) : UpperOf(sql[k]) = "LIMIT" => k + 2 = Len(sql)

====
